---- MODULE Spec2Model ----
(***************************************************************************)
(* A model of the Iconocolor folder colour engine: colour math, the        *)
(* base-colour / opacity / computed-colour resolvers of FolderManager, the *)
(* root-folder cache and the operations that change overrides, settings    *)
(* and the folder tree.                                                    *)
(*                                                                         *)
(* Representation.                                                         *)
(*   - A JavaScript string is a sequence of one-character strings, so that *)
(*     "#FF0000" and "#ff0000" are different values and parsing and        *)
(*     formatting are computed, not assumed.                               *)
(*   - `undefined` where a string is expected is the value Undefined.      *)
(*   - An object with optional properties is a record that has exactly the *)
(*     properties that are set (DOMAIN is Object.keys).                    *)
(*   - A JavaScript number that the code computes with is an exact         *)
(*     fraction [n, d] (d > 0, lowest terms); IEEE rounding of doubles is  *)
(*     not modelled.                                                       *)
(*   - A folder path "a/B" is the sequence of its segments <<"a", "B">>.   *)
(***************************************************************************)
EXTENDS Integers, Sequences, FiniteSets, TLC

(***************************************************************************)
(* Exact fractions                                                         *)
(***************************************************************************)
Abs(x) == IF x < 0 THEN -x ELSE x

RECURSIVE Gcd(_, _)
Gcd(a, b) == IF b = 0 THEN a ELSE Gcd(b, a % b)

Frac(n, d) ==
    LET s == IF d < 0 THEN -1 ELSE 1
        g == Gcd(Abs(n), Abs(d))
    IN  [n |-> (s * n) \div g, d |-> (s * d) \div g]

Num(k) == [n |-> k, d |-> 1]

FAdd(a, b) ==
    LET g == Gcd(a.d, b.d)
    IN  Frac(a.n * (b.d \div g) + b.n * (a.d \div g), (a.d \div g) * b.d)
FNeg(a) == [n |-> -a.n, d |-> a.d]
FSub(a, b) == FAdd(a, FNeg(b))
FMul(a, b) ==
    LET g1 == Gcd(Abs(a.n), b.d)
        g2 == Gcd(Abs(b.n), a.d)
    IN  IF a.n = 0 \/ b.n = 0 THEN Num(0)
        ELSE Frac((a.n \div g1) * (b.n \div g2), (a.d \div g2) * (b.d \div g1))
FDiv(a, b) == FMul(a, Frac(b.d, b.n))
FLt(a, b) == a.n * b.d < b.n * a.d
FLe(a, b) == a.n * b.d <= b.n * a.d
FMax(a, b) == IF FLt(a, b) THEN b ELSE a
FMin(a, b) == IF FLt(b, a) THEN b ELSE a
\* Math.max(lo, Math.min(hi, x))
FClamp(x, lo, hi) == FMax(Num(lo), FMin(Num(hi), x))
\* Math.floor
FFloor(a) == a.n \div a.d
\* Math.round: to the nearest integer, halves towards +infinity
FRound(a) == (2 * a.n + a.d) \div (2 * a.d)
\* the JavaScript remainder a % m (m a positive integer): sign of the dividend
FRem(a, m) ==
    LET q == IF a.n >= 0 THEN a.n \div (a.d * m) ELSE -((-a.n) \div (a.d * m))
    IN  FSub(a, Num(q * m))

\* a to the power k (k a natural number)
RECURSIVE FPow(_, _)
FPow(a, k) == IF k = 0 THEN Num(1) ELSE FMul(a, FPow(a, k - 1))

(***************************************************************************)
(* Strings                                                                 *)
(***************************************************************************)
Undefined == <<"undefined">>
EmptyString == <<>>
\* JavaScript truthiness of a string | undefined
Truthy(s) == s # Undefined /\ s # EmptyString

HexLower == <<"0", "1", "2", "3", "4", "5", "6", "7", "8", "9",
              "a", "b", "c", "d", "e", "f">>
HexUpper == <<"0", "1", "2", "3", "4", "5", "6", "7", "8", "9",
              "A", "B", "C", "D", "E", "F">>
IsHexDigit(ch) == \E i \in 1..16 : ch = HexLower[i] \/ ch = HexUpper[i]
\* parseInt(ch, 16) of one hex digit
HexValue(ch) == (CHOOSE i \in 1..16 : ch = HexLower[i] \/ ch = HexUpper[i]) - 1

(***************************************************************************)
(* colorUtils.ts                                                           *)
(***************************************************************************)
Null == [null |-> TRUE]

hexToRgb(hex) ==
    LET body == IF Len(hex) > 0 /\ hex[1] = "#" THEN Tail(hex) ELSE hex
    IN  IF Len(body) = 6 /\ \A i \in 1..6 : IsHexDigit(body[i])
        THEN [r |-> 16 * HexValue(body[1]) + HexValue(body[2]),
              g |-> 16 * HexValue(body[3]) + HexValue(body[4]),
              b |-> 16 * HexValue(body[5]) + HexValue(body[6])]
        ELSE Null

\* x.toString(16), left-padded to two digits (x in 0..255)
toHex2(x) == <<HexLower[(x \div 16) + 1], HexLower[(x % 16) + 1]>>

rgbToHex(r, g, b) == <<"#">> \o toHex2(r) \o toHex2(g) \o toHex2(b)

interpolateColor(color1, color2, factor) ==
    LET c1 == hexToRgb(color1)
        c2 == hexToRgb(color2)
        mix(x, y) == FRound(FAdd(Num(x), FMul(Num(y - x), factor)))
    IN  IF c1 = Null \/ c2 = Null THEN color1
        ELSE rgbToHex(mix(c1.r, c2.r), mix(c1.g, c2.g), mix(c1.b, c2.b))

\* element i (0-based) of generateGradientColors(palette, count), count > Len(palette) > 1
gradientColorAt(palette, count, i) ==
    LET segments == Len(palette) - 1
        position == Frac(i, count - 1)
        floorIdx == FFloor(FMul(position, Num(segments)))
        segmentIndex == IF floorIdx < segments - 1 THEN floorIdx ELSE segments - 1
        segmentStart == Frac(segmentIndex, segments)
        segmentEnd == Frac(segmentIndex + 1, segments)
        segmentFactor == FDiv(FSub(position, segmentStart), FSub(segmentEnd, segmentStart))
    IN  interpolateColor(palette[segmentIndex + 1], palette[segmentIndex + 2], segmentFactor)

\* generateGradientColors without the early return for a count within the palette length
generateGradientColorsAlwaysInterpolates(palette, count) ==
    IF Len(palette) = 0 THEN <<>>
    ELSE IF Len(palette) = 1 THEN [i \in 1..count |-> palette[1]]
    ELSE IF count <= 1 THEN SubSeq(palette, 1, count)
    ELSE [i \in 1..count |-> gradientColorAt(palette, count, i - 1)]

generateGradientColors(palette, count) ==
    IF Len(palette) = 0 THEN <<>>
    ELSE IF Len(palette) = 1 THEN [i \in 1..count |-> palette[1]]
    ELSE IF count <= Len(palette) THEN SubSeq(palette, 1, count)
    ELSE [i \in 1..count |-> gradientColorAt(palette, count, i - 1)]

generateRepeatingColors(palette, count) ==
    IF Len(palette) = 0 THEN <<>>
    ELSE [i \in 1..count |-> palette[((i - 1) % Len(palette)) + 1]]

Max3(a, b, c) == IF a >= b /\ a >= c THEN a ELSE IF b >= c THEN b ELSE c
Min3(a, b, c) == IF a <= b /\ a <= c THEN a ELSE IF b <= c THEN b ELSE c

\* h in degrees, s and l in percent, as fractions
rgbToHsl(r, g, b) ==
    LET max == Max3(r, g, b)
        min == Min3(r, g, b)
        l == Frac(max + min, 2 * 255)
        d == max - min
        s == IF 2 * (max + min) > 2 * 255
             THEN Frac(d, 2 * 255 - max - min)
             ELSE Frac(d, max + min)
        h == IF max = r THEN FDiv(FAdd(Frac(g - b, d), Num(IF g < b THEN 6 ELSE 0)), Num(6))
             ELSE IF max = g THEN FDiv(FAdd(Frac(b - r, d), Num(2)), Num(6))
             ELSE FDiv(FAdd(Frac(r - g, d), Num(4)), Num(6))
    IN  IF max = min
        THEN [h |-> Num(0), s |-> Num(0), l |-> FMul(l, Num(100))]
        ELSE [h |-> FMul(h, Num(360)), s |-> FMul(s, Num(100)), l |-> FMul(l, Num(100))]

hue2rgb(p, q, t0) ==
    LET t1 == IF FLt(t0, Num(0)) THEN FAdd(t0, Num(1)) ELSE t0
        t == IF FLt(Num(1), t1) THEN FSub(t1, Num(1)) ELSE t1
    IN  IF FLt(t, Frac(1, 6)) THEN FAdd(p, FMul(FMul(FSub(q, p), Num(6)), t))
        ELSE IF FLt(t, Frac(1, 2)) THEN q
        ELSE IF FLt(t, Frac(2, 3))
             THEN FAdd(p, FMul(FMul(FSub(q, p), FSub(Frac(2, 3), t)), Num(6)))
        ELSE p

hslToRgb(h0, s0, l0) ==
    LET h == FDiv(h0, Num(360))
        s == FDiv(s0, Num(100))
        l == FDiv(l0, Num(100))
        q == IF FLt(l, Frac(1, 2)) THEN FMul(l, FAdd(Num(1), s))
             ELSE FSub(FAdd(l, s), FMul(l, s))
        p == FSub(FMul(Num(2), l), q)
        to255(x) == FRound(FMul(x, Num(255)))
    IN  IF s.n = 0
        THEN [r |-> to255(l), g |-> to255(l), b |-> to255(l)]
        ELSE [r |-> to255(hue2rgb(p, q, FAdd(h, Frac(1, 3)))),
              g |-> to255(hue2rgb(p, q, h)),
              b |-> to255(hue2rgb(p, q, FSub(h, Frac(1, 3))))]

\* transformation: a record with the optional properties hue, saturation, lightness
applyHSLTransformation(hex, transformation) ==
    LET rgb == hexToRgb(hex)
        hsl == rgbToHsl(rgb.r, rgb.g, rgb.b)
        h == IF "hue" \in DOMAIN transformation
             THEN FRem(FAdd(FAdd(hsl.h, Num(transformation.hue)), Num(360)), 360)
             ELSE hsl.h
        s == IF "saturation" \in DOMAIN transformation
             THEN FClamp(FAdd(hsl.s, Num(transformation.saturation)), 0, 100)
             ELSE hsl.s
        l == IF "lightness" \in DOMAIN transformation
             THEN FClamp(FAdd(hsl.l, Num(transformation.lightness)), 0, 100)
             ELSE hsl.l
        newRgb == hslToRgb(h, s, l)
    IN  IF rgb = Null THEN hex ELSE rgbToHex(newRgb.r, newRgb.g, newRgb.b)

\* applyLightnessTransformation with black substituted for a colour that does not parse
applyLightnessTransformationBlackOnFailure(hex, adjustment) ==
    LET rgb == hexToRgb(hex)
        hsl == rgbToHsl(rgb.r, rgb.g, rgb.b)
        newL == FClamp(FAdd(hsl.l, Num(adjustment)), 0, 100)
        newRgb == hslToRgb(hsl.h, hsl.s, newL)
    IN  IF rgb = Null THEN rgbToHex(0, 0, 0) ELSE rgbToHex(newRgb.r, newRgb.g, newRgb.b)

applyLightnessTransformation(hex, adjustment) ==
    LET rgb == hexToRgb(hex)
        hsl == rgbToHsl(rgb.r, rgb.g, rgb.b)
        newL == FClamp(FAdd(hsl.l, Num(adjustment)), 0, 100)
        newRgb == hslToRgb(hsl.h, hsl.s, newL)
    IN  IF rgb = Null THEN hex ELSE rgbToHex(newRgb.r, newRgb.g, newRgb.b)

(***************************************************************************)
(* Folder paths and the vault                                              *)
(***************************************************************************)
MaxDepth == 3
SegNames == {"a", "B", "c"}
AllPaths == UNION {[1..k -> SegNames] : k \in 1..MaxDepth}

\* pathParts.slice(0, -1).join('/')
ParentOf(path) == SubSeq(path, 1, Len(path) - 1)
\* pathParts.slice(0, i).join('/') for i = Len - 1 down to 1
AncestorsOf(path) == {SubSeq(path, 1, i) : i \in 1..(Len(path) - 1)}
\* pathParts[pathParts.length - 1]
NameOf(path) == path[Len(path)]

\* name.toLowerCase()
toLowerCase(name) == IF name = "B" THEN "b" ELSE name
\* the rank of a lower-case name in localeCompare order
LocaleRank(lower) == IF lower = "a" THEN 1 ELSE IF lower = "b" THEN 2 ELSE 3
\* a.toLowerCase().localeCompare(b.toLowerCase()) < 0
NameBefore(a, b) == LocaleRank(toLowerCase(a)) < LocaleRank(toLowerCase(b))

\* names.sort((a, b) => a.toLowerCase().localeCompare(b.toLowerCase()))
RECURSIVE SortNames(_)
SortNames(names) ==
    IF names = {} THEN <<>>
    ELSE LET first == CHOOSE n \in names : \A m \in names \ {n} : NameBefore(n, m)
         IN  <<first>> \o SortNames(names \ {first})

\* Array.prototype.indexOf, 0-based, -1 when absent
IndexOf(seq, elem) ==
    IF \E i \in 1..Len(seq) : seq[i] = elem
    THEN (CHOOSE i \in 1..Len(seq) : seq[i] = elem /\ \A j \in 1..(i - 1) : seq[j] # elem) - 1
    ELSE -1

(***************************************************************************)
(* State of the plugin                                                     *)
(***************************************************************************)
VARIABLES
    vault,                      \* the folders of the vault (vault.getAllFolders())
    folderConfigs,              \* settings.folderConfigs: path -> FolderConfig
    settings,                   \* the other properties of IconocolorSettings
    rootFoldersCache,           \* FolderManager.rootFoldersCache
    rootFoldersCacheTimestamp,  \* FolderManager.rootFoldersCacheTimestamp
    now,                        \* Date.now(), in ms since the start of the run
    ops,                        \* how many mutations of overrides, settings or tree so far
    awaiting,                   \* the mutations suspended at `await saveData(...)`
    observer                    \* the MutationObserver of startObserving and its timers

vars == <<vault, folderConfigs, settings, rootFoldersCache,
          rootFoldersCacheTimestamp, now, ops, awaiting, observer>>

ROOT_FOLDERS_CACHE_DURATION == 5000

NullCache == [isNull |-> TRUE, list |-> <<>>]

(***************************************************************************)
(* The resolvers are synchronous and read this.settings, the vault and the *)
(* list getRootFolders() returns.  They take that as one record `self`:    *)
(*   self.folderConfigs, self.settings, self.vault, self.rootFolders.      *)
(* Within one synchronous call every getRootFolders() call returns the     *)
(* same list (the first one refreshes the cache at the same Date.now()).   *)
(***************************************************************************)

\* self.settings.folderConfigs[path]?.[field] for a string property
ConfigString(self, path, field) ==
    IF path \in DOMAIN self.folderConfigs /\ field \in DOMAIN self.folderConfigs[path]
    THEN self.folderConfigs[path][field]
    ELSE Undefined

\* ancestorConfig && ancestorConfig.inheritBaseColor === false
InheritanceDisabledAt(self, path) ==
    /\ path \in DOMAIN self.folderConfigs
    /\ "inheritBaseColor" \in DOMAIN self.folderConfigs[path]
    /\ self.folderConfigs[path].inheritBaseColor = FALSE

(***************************************************************************)
(* FolderManager: enumeration                                              *)
(***************************************************************************)
\* the root folders of the vault, sorted
enumerateRootFolders(folders) ==
    LET names == SortNames({NameOf(p) : p \in {q \in folders : Len(q) = 1}})
    IN  [i \in 1..Len(names) |-> <<names[i]>>]

\* cacheIsValid with the age test made inclusive: a list of age 5000 ms is still returned
cacheIsValidAtDuration(cache, timestamp, time) ==
    ~cache.isNull /\ time - timestamp <= ROOT_FOLDERS_CACHE_DURATION

\* the cached list is returned
cacheIsValid(cache, timestamp, time) ==
    ~cache.isNull /\ time - timestamp < ROOT_FOLDERS_CACHE_DURATION

\* the list getRootFolders() returns
getRootFolders(folders, cache, timestamp, time) ==
    IF cacheIsValid(cache, timestamp, time) THEN cache.list
    ELSE enumerateRootFolders(folders)

getChildrenFolders(self, parentPath) ==
    SortNames({NameOf(p) : p \in {q \in self.vault : Len(q) = Len(parentPath) + 1
                                                     /\ ParentOf(q) = parentPath}})

\* generateAutoColors with the autoColorMode test dropped: always the gradient
generateAutoColorsAlwaysGradient(self, rootFolders) ==
    LET palettes == self.settings.colorPalettes
        index == self.settings.activePaletteIndex
    IN  IF Len(rootFolders) = 0 THEN <<>>
        ELSE IF index + 1 \notin 1..Len(palettes) THEN <<>>
        ELSE IF Len(palettes[index + 1]) = 0 THEN <<>>
        ELSE generateGradientColors(palettes[index + 1], Len(rootFolders))

generateAutoColors(self, rootFolders) ==
    LET palettes == self.settings.colorPalettes
        index == self.settings.activePaletteIndex
    IN  IF Len(rootFolders) = 0 THEN <<>>
        ELSE IF index + 1 \notin 1..Len(palettes) THEN <<>>
        ELSE IF Len(palettes[index + 1]) = 0 THEN <<>>
        ELSE IF self.settings.autoColorMode = "gradient"
        THEN generateGradientColors(palettes[index + 1], Len(rootFolders))
        ELSE generateRepeatingColors(palettes[index + 1], Len(rootFolders))

(***************************************************************************)
(* FolderManager: resolvers                                                *)
(***************************************************************************)
\* { hue: t.hue, saturation: t.saturation, lightness: t.lightness }
hslFields(transformation) ==
    [k \in DOMAIN transformation \cap {"hue", "saturation", "lightness"} |-> transformation[k]]

applyTransformation(baseColor, transformation) ==
    IF transformation.type = "hsl"
    THEN applyHSLTransformation(baseColor, hslFields(transformation))
    ELSE IF transformation.type = "lightness" /\ "adjustment" \in DOMAIN transformation
    THEN applyLightnessTransformation(baseColor, transformation.adjustment)
    ELSE baseColor

\* canInherit with only the immediate parent inspected
canInheritParentOnly(self, path) ==
    Len(path) > 1 => ~InheritanceDisabledAt(self, ParentOf(path))

\* canInherit of getBaseColor and getComputedOpacity
\* canInherit with the folder's own inheritBaseColor flag inspected as well
canInheritOwnFlagToo(self, path) ==
    \A anc \in AncestorsOf(path) \cup {path} : ~InheritanceDisabledAt(self, anc)

canInherit(self, path) == \A anc \in AncestorsOf(path) : ~InheritanceDisabledAt(self, anc)

RECURSIVE getBaseColor(_, _), applyChildBaseTransformation(_, _, _, _),
          applyGradientTransformation(_, _, _, _)

\* applyGradientTransformation taking the next sibling of the child, not of the parent
applyGradientTransformationChildSibling(self, parentBaseColor, childPath, parentPath) ==
    LET parentChildren == getChildrenFolders(self, parentPath)
        childIndex == IndexOf(parentChildren, NameOf(childPath))
        nextSiblingBaseColor ==
            IF childIndex >= 0 /\ childIndex < Len(parentChildren) - 1
            THEN getBaseColor(self, Append(parentPath, parentChildren[childIndex + 2]))
            ELSE Undefined
        step == Frac(childIndex + 1, Len(parentChildren) + 1)
    IN  IF Len(parentChildren) = 0 THEN parentBaseColor
        ELSE IF childIndex < 0 \/ childIndex >= Len(parentChildren) THEN parentBaseColor
        ELSE IF ~Truthy(nextSiblingBaseColor) THEN parentBaseColor
        ELSE interpolateColor(parentBaseColor, nextSiblingBaseColor, step)

\* applyGradientTransformation going round to the first sibling when the parent is the
\* last entry of its level
applyGradientTransformationWrapsAround(self, parentBaseColor, childPath, parentPath) ==
    LET parentChildren == getChildrenFolders(self, parentPath)
        childIndex == IndexOf(parentChildren, NameOf(childPath))
        level == IF Len(parentPath) = 1 THEN self.rootFolders
                 ELSE LET names == getChildrenFolders(self, ParentOf(parentPath))
                      IN  [i \in 1..Len(names) |-> Append(ParentOf(parentPath), names[i])]
        parentIndex == IndexOf(level, parentPath)
        nextSiblingBaseColor ==
            IF parentIndex >= 0 /\ Len(level) > 1
            THEN getBaseColor(self, level[((parentIndex + 1) % Len(level)) + 1])
            ELSE Undefined
        step == Frac(childIndex + 1, Len(parentChildren) + 1)
    IN  IF Len(parentChildren) = 0 THEN parentBaseColor
        ELSE IF childIndex < 0 \/ childIndex >= Len(parentChildren) THEN parentBaseColor
        ELSE IF ~Truthy(nextSiblingBaseColor) THEN parentBaseColor
        ELSE interpolateColor(parentBaseColor, nextSiblingBaseColor, step)

\* applyGradientTransformation with the first child at the parent's own colour: step
\* childIndex / (totalSteps - 1)
applyGradientTransformationFromParent(self, parentBaseColor, childPath, parentPath) ==
    LET parentChildren == getChildrenFolders(self, parentPath)
        childIndex == IndexOf(parentChildren, NameOf(childPath))
        rootFolders == self.rootFolders
        parentIndex == IndexOf(rootFolders, parentPath)
        parentSiblings == getChildrenFolders(self, ParentOf(parentPath))
        parentSiblingIndex == IndexOf(parentSiblings, NameOf(parentPath))
        nextSiblingBaseColor ==
            IF Len(parentPath) = 1
            THEN IF parentIndex >= 0 /\ parentIndex < Len(rootFolders) - 1
                 THEN getBaseColor(self, rootFolders[parentIndex + 2])
                 ELSE Undefined
            ELSE IF parentSiblingIndex >= 0 /\ parentSiblingIndex < Len(parentSiblings) - 1
                 THEN getBaseColor(self, Append(ParentOf(parentPath),
                                                parentSiblings[parentSiblingIndex + 2]))
                 ELSE Undefined
        step == Frac(childIndex, Len(parentChildren) + 1)
    IN  IF Len(parentChildren) = 0 THEN parentBaseColor
        ELSE IF childIndex < 0 \/ childIndex >= Len(parentChildren) THEN parentBaseColor
        ELSE IF ~Truthy(nextSiblingBaseColor) THEN parentBaseColor
        ELSE interpolateColor(parentBaseColor, nextSiblingBaseColor, step)

applyGradientTransformation(self, parentBaseColor, childPath, parentPath) ==
    LET parentChildren == getChildrenFolders(self, parentPath)
        childIndex == IndexOf(parentChildren, NameOf(childPath))
        isParentRoot == Len(parentPath) = 1
        rootFolders == self.rootFolders
        parentIndex == IndexOf(rootFolders, parentPath)
        parentSiblings == getChildrenFolders(self, ParentOf(parentPath))
        parentSiblingIndex == IndexOf(parentSiblings, NameOf(parentPath))
        nextSiblingBaseColor ==
            IF isParentRoot
            THEN IF parentIndex >= 0 /\ parentIndex < Len(rootFolders) - 1
                 THEN getBaseColor(self, rootFolders[parentIndex + 2])
                 ELSE Undefined
            ELSE IF parentSiblingIndex >= 0 /\ parentSiblingIndex < Len(parentSiblings) - 1
                 THEN getBaseColor(self, Append(ParentOf(parentPath),
                                                parentSiblings[parentSiblingIndex + 2]))
                 ELSE Undefined
        totalSteps == Len(parentChildren) + 2
        stepIndex == childIndex + 1
        step == IF totalSteps > 2 THEN Frac(stepIndex, totalSteps - 1) ELSE Frac(1, 2)
        clampedStep == FMax(Num(0), FMin(Num(1), step))
    IN  IF Len(parentChildren) = 0 THEN parentBaseColor
        ELSE IF childIndex < 0 \/ childIndex >= Len(parentChildren) THEN parentBaseColor
        ELSE IF ~Truthy(nextSiblingBaseColor) THEN parentBaseColor
        ELSE interpolateColor(parentBaseColor, nextSiblingBaseColor, clampedStep)

\* applyChildBaseTransformation without the early return of '' for type 'none'
applyChildBaseTransformationNoneKeepsParent(self, parentBaseColor, childPath, parentPath) ==
    LET transformation == self.settings.childBaseTransformation
        baseColor == IF "useGradient" \in DOMAIN transformation /\ transformation.useGradient
                     THEN applyGradientTransformation(self, parentBaseColor, childPath, parentPath)
                     ELSE parentBaseColor
    IN  IF transformation.type = "hsl"
        THEN applyHSLTransformation(baseColor, hslFields(transformation))
        ELSE IF transformation.type = "lightness" /\ "adjustment" \in DOMAIN transformation
        THEN applyLightnessTransformation(baseColor, transformation.adjustment)
        ELSE baseColor

\* the empty string signals "no inheritance"
applyChildBaseTransformation(self, parentBaseColor, childPath, parentPath) ==
    LET transformation == self.settings.childBaseTransformation
        baseColor == IF "useGradient" \in DOMAIN transformation /\ transformation.useGradient
                     THEN applyGradientTransformation(self, parentBaseColor, childPath, parentPath)
                     ELSE parentBaseColor
    IN  IF transformation.type = "none" THEN EmptyString
        ELSE IF transformation.type = "hsl"
        THEN applyHSLTransformation(baseColor, hslFields(transformation))
        ELSE IF transformation.type = "lightness" /\ "adjustment" \in DOMAIN transformation
        THEN applyLightnessTransformation(baseColor, transformation.adjustment)
        ELSE baseColor

\* getBaseColor with the auto-colour branch placed before the explicit base colour
getBaseColorAutoFirst(self, folderPath) ==
    LET isRootFolder == Len(folderPath) = 1
        explicit == ConfigString(self, folderPath, "baseColor")
        rootFolders == self.rootFolders
        rootIndex == IndexOf(rootFolders, folderPath)
        autoColors == generateAutoColors(self, rootFolders)
        parentPath == ParentOf(folderPath)
        parentBaseColor == getBaseColor(self, parentPath)
        transformedColor ==
            applyChildBaseTransformation(self, parentBaseColor, folderPath, parentPath)
    IN  IF isRootFolder /\ self.settings.autoColorEnabled
           /\ rootIndex >= 0 /\ rootIndex < Len(autoColors)
        THEN autoColors[rootIndex + 1]
        ELSE IF Truthy(explicit) THEN explicit
        ELSE IF ~isRootFolder /\ canInherit(self, folderPath) /\ Truthy(parentBaseColor)
        THEN IF transformedColor = EmptyString
                /\ self.settings.childBaseTransformation.type = "none"
             THEN Undefined
             ELSE IF Truthy(transformedColor) THEN transformedColor ELSE Undefined
        ELSE Undefined

\* getBaseColor with the autoColorEnabled test dropped
getBaseColorAutoAlways(self, folderPath) ==
    LET isRootFolder == Len(folderPath) = 1
        explicit == ConfigString(self, folderPath, "baseColor")
        rootFolders == self.rootFolders
        rootIndex == IndexOf(rootFolders, folderPath)
        autoColors == generateAutoColors(self, rootFolders)
        parentPath == ParentOf(folderPath)
        parentBaseColor == getBaseColor(self, parentPath)
        transformedColor ==
            applyChildBaseTransformation(self, parentBaseColor, folderPath, parentPath)
    IN  IF Truthy(explicit) THEN explicit
        ELSE IF isRootFolder /\ rootIndex >= 0 /\ rootIndex < Len(autoColors)
        THEN autoColors[rootIndex + 1]
        ELSE IF ~isRootFolder /\ canInherit(self, folderPath) /\ Truthy(parentBaseColor)
        THEN IF transformedColor = EmptyString
                /\ self.settings.childBaseTransformation.type = "none"
             THEN Undefined
             ELSE IF Truthy(transformedColor) THEN transformedColor ELSE Undefined
        ELSE Undefined

getBaseColor(self, folderPath) ==
    LET isRootFolder == Len(folderPath) = 1
        explicit == ConfigString(self, folderPath, "baseColor")
        rootFolders == self.rootFolders
        rootIndex == IndexOf(rootFolders, folderPath)
        autoColors == generateAutoColors(self, rootFolders)
        parentPath == ParentOf(folderPath)
        parentBaseColor == getBaseColor(self, parentPath)
        transformedColor ==
            applyChildBaseTransformation(self, parentBaseColor, folderPath, parentPath)
    IN  IF Truthy(explicit) THEN explicit
        ELSE IF isRootFolder /\ self.settings.autoColorEnabled
                /\ rootIndex >= 0 /\ rootIndex < Len(autoColors)
        THEN autoColors[rootIndex + 1]
        ELSE IF ~isRootFolder /\ canInherit(self, folderPath) /\ Truthy(parentBaseColor)
        THEN IF transformedColor = EmptyString
                /\ self.settings.childBaseTransformation.type = "none"
             THEN Undefined
             ELSE IF Truthy(transformedColor) THEN transformedColor ELSE Undefined
        ELSE Undefined

\* the opacity in percent, as a fraction
RECURSIVE getComputedOpacity(_, _)
\* getComputedOpacity returning the global opacity where inheritance is disabled
getComputedOpacityGlobalWhenBlocked(self, folderPath) ==
    LET isRootFolder == Len(folderPath) = 1
        parentOpacity == getComputedOpacity(self, ParentOf(folderPath))
        transformation == self.settings.childBaseTransformation
        childOpacityFactor ==
            IF "backgroundOpacity" \in DOMAIN transformation
            THEN Frac(transformation.backgroundOpacity, 100)
            ELSE Num(1)
    IN  IF isRootFolder THEN Num(self.settings.folderColorOpacity)
        ELSE IF ~canInherit(self, folderPath) THEN Num(self.settings.folderColorOpacity)
        ELSE FMax(Num(0), FMin(Num(100), FMul(parentOpacity, childOpacityFactor)))

\* getComputedOpacity multiplying the global opacity, not the parent's, by the factor
getComputedOpacityNoAccumulation(self, folderPath) ==
    LET isRootFolder == Len(folderPath) = 1
        transformation == self.settings.childBaseTransformation
        childOpacityFactor ==
            IF "backgroundOpacity" \in DOMAIN transformation
            THEN Frac(transformation.backgroundOpacity, 100)
            ELSE Num(1)
    IN  IF isRootFolder THEN Num(self.settings.folderColorOpacity)
        ELSE IF ~canInherit(self, folderPath) THEN Num(0)
        ELSE FMax(Num(0), FMin(Num(100),
                  FMul(Num(self.settings.folderColorOpacity), childOpacityFactor)))

\* getComputedOpacity giving 0 to a non-root folder when children do not inherit a colour
getComputedOpacityZeroForTypeNone(self, folderPath) ==
    LET isRootFolder == Len(folderPath) = 1
        parentOpacity == getComputedOpacity(self, ParentOf(folderPath))
        transformation == self.settings.childBaseTransformation
        childOpacityFactor ==
            IF "backgroundOpacity" \in DOMAIN transformation
            THEN Frac(transformation.backgroundOpacity, 100)
            ELSE Num(1)
    IN  IF isRootFolder THEN Num(self.settings.folderColorOpacity)
        ELSE IF ~canInherit(self, folderPath) \/ transformation.type = "none" THEN Num(0)
        ELSE FMax(Num(0), FMin(Num(100), FMul(parentOpacity, childOpacityFactor)))

getComputedOpacity(self, folderPath) ==
    LET isRootFolder == Len(folderPath) = 1
        parentOpacity == getComputedOpacity(self, ParentOf(folderPath))
        transformation == self.settings.childBaseTransformation
        childOpacityFactor ==
            IF "backgroundOpacity" \in DOMAIN transformation
            THEN Frac(transformation.backgroundOpacity, 100)
            ELSE Num(1)
    IN  IF isRootFolder THEN Num(self.settings.folderColorOpacity)
        ELSE IF ~canInherit(self, folderPath) THEN Num(0)
        ELSE FMax(Num(0), FMin(Num(100), FMul(parentOpacity, childOpacityFactor)))

\* getComputedColors with the transformed base colour taking precedence over the override
getComputedColorsBaseFirst(self, folderPath) ==
    LET baseColor == getBaseColor(self, folderPath)
        element(field, transformation) ==
            IF Truthy(baseColor) THEN applyTransformation(baseColor, transformation)
            ELSE IF ConfigString(self, folderPath, field) # Undefined
            THEN ConfigString(self, folderPath, field)
            ELSE Undefined
        iconColor == element("iconColor", self.settings.iconColorTransformation)
        folderColor == element("folderColor", self.settings.folderColorTransformation)
        textColor == element("textColor", self.settings.textColorTransformation)
        keys == {k \in {"iconColor", "folderColor", "textColor"} :
                    \/ (k = "iconColor" /\ iconColor # Undefined)
                    \/ (k = "folderColor" /\ folderColor # Undefined)
                    \/ (k = "textColor" /\ textColor # Undefined)}
    IN  [k \in keys |-> IF k = "iconColor" THEN iconColor
                        ELSE IF k = "folderColor" THEN folderColor ELSE textColor]

\* the returned object holds exactly the properties that were assigned
getComputedColors(self, folderPath) ==
    LET baseColor == getBaseColor(self, folderPath)
        element(field, transformation) ==
            IF ConfigString(self, folderPath, field) # Undefined
            THEN ConfigString(self, folderPath, field)
            ELSE IF Truthy(baseColor) THEN applyTransformation(baseColor, transformation)
            ELSE Undefined
        iconColor == element("iconColor", self.settings.iconColorTransformation)
        folderColor == element("folderColor", self.settings.folderColorTransformation)
        textColor == element("textColor", self.settings.textColorTransformation)
        keys == {k \in {"iconColor", "folderColor", "textColor"} :
                    \/ (k = "iconColor" /\ iconColor # Undefined)
                    \/ (k = "folderColor" /\ folderColor # Undefined)
                    \/ (k = "textColor" /\ textColor # Undefined)}
    IN  [k \in keys |-> IF k = "iconColor" THEN iconColor
                        ELSE IF k = "folderColor" THEN folderColor ELSE textColor]

\* the opacity passed to applyFolderStyles taken to be the global one for every folder
finalOpacityAlwaysGlobal(self, folderPath) == Num(self.settings.folderColorOpacity)

\* applyAllStyles: config.folderColor ? getComputedOpacity(folderPath) : folderColorOpacity
finalOpacity(self, folderPath) ==
    LET computedColors == getComputedColors(self, folderPath)
    IN  IF "folderColor" \in DOMAIN computedColors /\ Truthy(computedColors.folderColor)
        THEN getComputedOpacity(self, folderPath)
        ELSE Num(self.settings.folderColorOpacity)

(***************************************************************************)
(* FolderConfigModal: the base colour shown in the modal                   *)
(***************************************************************************)
\* { hue: t.hue || 0, saturation: t.saturation || 0, lightness: t.lightness || 0 }
modalHslFields(transformation) ==
    [k \in {"hue", "saturation", "lightness"} |->
        IF k \in DOMAIN transformation THEN transformation[k] ELSE 0]

\* FolderConfigModal.applyChildBaseTransformation returning the parent colour for 'none'
modalApplyChildBaseTransformationNoneKeepsParent(self, parentBaseColor) ==
    LET transformation == self.settings.childBaseTransformation
    IN  IF transformation.type = "hsl"
        THEN applyHSLTransformation(parentBaseColor, modalHslFields(transformation))
        ELSE IF transformation.type = "lightness" /\ "adjustment" \in DOMAIN transformation
        THEN applyLightnessTransformation(parentBaseColor, transformation.adjustment)
        ELSE parentBaseColor

\* FolderConfigModal.applyChildBaseTransformation(parentBaseColor)
modalApplyChildBaseTransformation(self, parentBaseColor) ==
    LET transformation == self.settings.childBaseTransformation
    IN  IF transformation.type = "none" THEN Undefined
        ELSE IF transformation.type = "hsl"
        THEN applyHSLTransformation(parentBaseColor, modalHslFields(transformation))
        ELSE IF transformation.type = "lightness" /\ "adjustment" \in DOMAIN transformation
        THEN applyLightnessTransformation(parentBaseColor, transformation.adjustment)
        ELSE parentBaseColor

\* FolderConfigModal.getRootFolders(): enumerated on every call, no cache
modalGetRootFolders(self) == enumerateRootFolders(self.vault)

\* FolderConfigModal.generateAutoColors(rootFolders)
modalGenerateAutoColors(self, rootFolders) ==
    LET palettes == self.settings.colorPalettes
        index == self.settings.activePaletteIndex
    IN  IF Len(rootFolders) = 0 THEN <<>>
        ELSE IF index + 1 \notin 1..Len(palettes) THEN <<>>
        ELSE IF Len(palettes[index + 1]) = 0 THEN <<>>
        ELSE IF self.settings.autoColorMode = "gradient"
        THEN generateGradientColors(palettes[index + 1], Len(rootFolders))
        ELSE generateRepeatingColors(palettes[index + 1], Len(rootFolders))

\* FolderConfigModal.getBaseColorForPath(folderPath)
RECURSIVE getBaseColorForPath(_, _)
getBaseColorForPath(self, folderPath) ==
    LET isRootFolder == Len(folderPath) = 1
        explicit == ConfigString(self, folderPath, "baseColor")
        rootFolders == modalGetRootFolders(self)
        rootIndex == IndexOf(rootFolders, folderPath)
        autoColors == modalGenerateAutoColors(self, rootFolders)
        parentBaseColor == getBaseColorForPath(self, ParentOf(folderPath))
        transformedColor == modalApplyChildBaseTransformation(self, parentBaseColor)
    IN  IF Truthy(explicit) THEN explicit
        ELSE IF isRootFolder /\ self.settings.autoColorEnabled
                /\ rootIndex >= 0 /\ rootIndex < Len(autoColors)
        THEN autoColors[rootIndex + 1]
        ELSE IF ~isRootFolder /\ canInherit(self, folderPath) /\ Truthy(parentBaseColor)
                /\ Truthy(transformedColor)
        THEN transformedColor
        ELSE Undefined

(***************************************************************************)
(* Which calls reach getRootFolders() (and so may refresh the cache).      *)
(* That depends on which base colours resolve, not on their values: a      *)
(* palette colour is a non-empty string, and so is the result of a         *)
(* transformation or interpolation of one.                                 *)
(***************************************************************************)
\* generateAutoColors(rootFolders).length
autoColorCount(self, rootFolders) ==
    LET palettes == self.settings.colorPalettes
        index == self.settings.activePaletteIndex
    IN  IF Len(rootFolders) = 0 THEN 0
        ELSE IF index + 1 \notin 1..Len(palettes) THEN 0
        ELSE IF Len(palettes[index + 1]) = 0 THEN 0
        ELSE Len(rootFolders)

\* whether getBaseColor(folderPath) returns a colour: the branches of getBaseColor, with
\* the colour it returns left out
RECURSIVE baseColorResolves(_, _)
baseColorResolves(self, folderPath) ==
    LET isRootFolder == Len(folderPath) = 1
        rootIndex == IndexOf(self.rootFolders, folderPath)
    IN  IF Truthy(ConfigString(self, folderPath, "baseColor")) THEN TRUE
        ELSE IF isRootFolder
        THEN /\ self.settings.autoColorEnabled
             /\ rootIndex >= 0
             /\ rootIndex < autoColorCount(self, self.rootFolders)
        ELSE /\ canInherit(self, folderPath)
             /\ baseColorResolves(self, ParentOf(folderPath))
             /\ self.settings.childBaseTransformation.type # "none"

RECURSIVE baseColorCallsGetRootFolders(_, _)
baseColorCallsGetRootFolders(self, folderPath) ==
    LET isRootFolder == Len(folderPath) = 1
        parentPath == ParentOf(folderPath)
        transformation == self.settings.childBaseTransformation
        parentChildren == getChildrenFolders(self, parentPath)
        parentSiblings == getChildrenFolders(self, ParentOf(parentPath))
        parentSiblingIndex == IndexOf(parentSiblings, NameOf(parentPath))
        \* applyGradientTransformation(parentBaseColor, folderPath, parentPath)
        gradientCalls ==
            /\ IndexOf(parentChildren, NameOf(folderPath)) >= 0
            /\ \/ Len(parentPath) = 1
               \/ /\ parentSiblingIndex >= 0
                  /\ parentSiblingIndex < Len(parentSiblings) - 1
                  /\ baseColorCallsGetRootFolders(self,
                        Append(ParentOf(parentPath), parentSiblings[parentSiblingIndex + 2]))
    IN  IF Truthy(ConfigString(self, folderPath, "baseColor")) THEN FALSE
        ELSE IF isRootFolder THEN self.settings.autoColorEnabled
        ELSE /\ canInherit(self, folderPath)
             /\ \/ baseColorCallsGetRootFolders(self, parentPath)
                \/ /\ baseColorResolves(self, parentPath)
                   /\ transformation.type # "none"
                   /\ "useGradient" \in DOMAIN transformation
                   /\ transformation.useGradient
                   /\ gradientCalls

\* the paths on which one getBaseColor(folderPath) call calls getBaseColor itself: the
\* parent, and in gradient mode the next sibling of the parent
getBaseColorCallsFrom(self, folderPath, nextSiblingOf) ==
    LET isRootFolder == Len(folderPath) = 1
        parentPath == ParentOf(folderPath)
        transformation == self.settings.childBaseTransformation
        parentChildren == getChildrenFolders(self, parentPath)
        childIndex == IndexOf(parentChildren, NameOf(folderPath))
        \* applyGradientTransformation(parentBaseColor, folderPath, parentPath)
        gradientCalls ==
            IF Len(parentChildren) = 0 \/ childIndex < 0 THEN {}
            ELSE nextSiblingOf
    IN  IF Truthy(ConfigString(self, folderPath, "baseColor")) THEN {}
        ELSE IF isRootFolder \/ ~canInherit(self, folderPath) THEN {}
        ELSE {parentPath}
             \cup IF /\ baseColorResolves(self, parentPath)
                      /\ transformation.type # "none"
                      /\ "useGradient" \in DOMAIN transformation
                      /\ transformation.useGradient
                   THEN gradientCalls
                   ELSE {}

\* the next root folder, or the next of the parent's siblings, if there is one
nextSiblingPaths(self, path) ==
    LET rootFolders == self.rootFolders
        index == IndexOf(rootFolders, path)
        siblings == getChildrenFolders(self, ParentOf(path))
        siblingIndex == IndexOf(siblings, NameOf(path))
    IN  IF Len(path) = 1
        THEN IF index >= 0 /\ index < Len(rootFolders) - 1
             THEN {rootFolders[index + 2]} ELSE {}
        ELSE IF siblingIndex >= 0 /\ siblingIndex < Len(siblings) - 1
             THEN {Append(ParentOf(path), siblings[siblingIndex + 2])} ELSE {}

\* getBaseColorCalls with the gradient taken towards the folder's own next sibling
getBaseColorCallsOwnSibling(self, folderPath) ==
    getBaseColorCallsFrom(self, folderPath, nextSiblingPaths(self, folderPath))

getBaseColorCalls(self, folderPath) ==
    getBaseColorCallsFrom(self, folderPath, nextSiblingPaths(self, ParentOf(folderPath)))

(***************************************************************************)
(* Input domains                                                           *)
(***************************************************************************)
Red == <<"#", "F", "F", "0", "0", "0", "0">>
Green == <<"#", "0", "0", "F", "F", "0", "0">>
Blue == <<"#", "3", "B", "8", "2", "F", "6">>
Black == <<"#", "0", "0", "0", "0", "0", "0">>
White == <<"#", "F", "F", "F", "F", "F", "F">>
NotAColor == <<"r", "e", "d">>

\* settings.colorPalettes (the colours of each palette): two colours, one colour, none
ModelPalettes == <<<<Red, Green>>, <<Blue>>, <<>>>>

\* values of settings.childBaseTransformation
ChildTransformations ==
    {[type |-> "none"],
     [type |-> "lightness", adjustment |-> 10, useGradient |-> FALSE, backgroundOpacity |-> 100],
     [type |-> "lightness", adjustment |-> 10, useGradient |-> FALSE, backgroundOpacity |-> 50],
     [type |-> "lightness", adjustment |-> 0, useGradient |-> TRUE, backgroundOpacity |-> 50],
     [type |-> "hsl", hue |-> 30, saturation |-> 0, lightness |-> 10,
      useGradient |-> TRUE, backgroundOpacity |-> 100]}

\* values of the three element transformations
ElementTransformations ==
    {[type |-> "none"],
     [type |-> "lightness", adjustment |-> 20],
     [type |-> "hsl", hue |-> -30, saturation |-> 10, lightness |-> 0]}

\* DEFAULT_SETTINGS, with the model's palettes
DefaultSettings ==
    [colorPalettes |-> ModelPalettes,
     activePaletteIndex |-> 0,
     autoColorEnabled |-> FALSE,
     autoColorMode |-> "gradient",
     iconColorTransformation |-> [type |-> "none"],
     folderColorTransformation |-> [type |-> "none"],
     textColorTransformation |-> [type |-> "lightness", adjustment |-> 20],
     childBaseTransformation |->
        [type |-> "lightness", adjustment |-> 10, useGradient |-> FALSE,
         backgroundOpacity |-> 100],
     folderColorOpacity |-> 0]

\* the current state as the resolvers read it
Self ==
    [vault |-> vault, folderConfigs |-> folderConfigs, settings |-> settings,
     rootFolders |-> getRootFolders(vault, rootFoldersCache, rootFoldersCacheTimestamp, now)]

(***************************************************************************)
(* Effects on the root-folder cache                                        *)
(***************************************************************************)
\* the cache after synchronous resolver calls for `paths` at time `time`
cacheAfterCalls(folders, configs, sett, cache, timestamp, time, paths) ==
    LET self == [vault |-> folders, folderConfigs |-> configs, settings |-> sett,
                 rootFolders |-> getRootFolders(folders, cache, timestamp, time)]
    IN  IF ~cacheIsValid(cache, timestamp, time)
           /\ \E p \in paths : baseColorCallsGetRootFolders(self, p)
        THEN [cache |-> [isNull |-> FALSE, list |-> enumerateRootFolders(folders)],
              timestamp |-> time]
        ELSE [cache |-> cache, timestamp |-> timestamp]

\* the folders applyAllStyles resolves: those shown in the explorer that exist in the vault
\* (every folder of the vault is taken to be shown)
styledFolders(folders) == folders

invalidateRootFoldersCache ==
    /\ rootFoldersCache' = NullCache
    /\ rootFoldersCacheTimestamp' = 0

(***************************************************************************)
(* Operations                                                              *)
(***************************************************************************)
MaxOps == 1
MaxTicks == 2
TickMs == ROOT_FOLDERS_CACHE_DURATION \div 2

applyAllStyles ==
    LET after == cacheAfterCalls(vault, folderConfigs, settings, rootFoldersCache,
                                 rootFoldersCacheTimestamp, now, styledFolders(vault))
    IN  /\ rootFoldersCache' = after.cache
        /\ rootFoldersCacheTimestamp' = after.timestamp
        /\ UNCHANGED <<observer, vault, folderConfigs, settings, now, ops, awaiting>>

\* one getComputedColors(path) call (one iteration of applyAllStyles or updateSettings)
CallGetComputedColors(path) ==
    LET after == cacheAfterCalls(vault, folderConfigs, settings, rootFoldersCache,
                                 rootFoldersCacheTimestamp, now, {path})
    IN  /\ path \in vault \cup DOMAIN folderConfigs
        /\ rootFoldersCache' = after.cache
        /\ rootFoldersCacheTimestamp' = after.timestamp
        /\ UNCHANGED <<observer, vault, folderConfigs, settings, now, ops, awaiting>>

\* Date.now() is read only by getRootFolders and only compared with the timestamp of a
\* cache that is not null, so time is advanced only while such a cache has not expired
Tick ==
    /\ now + TickMs <= MaxTicks * TickMs
    /\ cacheIsValid(rootFoldersCache, rootFoldersCacheTimestamp, now)
    /\ now' = now + TickMs
    /\ UNCHANGED <<observer, vault, folderConfigs, settings, rootFoldersCache,
                   rootFoldersCacheTimestamp, ops, awaiting>>

\* vault 'create' of a folder: the handler invalidates the cache
CreateFolder(path) ==
    /\ ops < MaxOps
    /\ path \notin vault
    /\ Len(path) = 1 \/ ParentOf(path) \in vault
    /\ vault' = vault \cup {path}
    /\ invalidateRootFoldersCache
    /\ ops' = ops + 1
    /\ UNCHANGED <<observer, folderConfigs, settings, now, awaiting>>

IsPrefix(p, q) == Len(p) <= Len(q) /\ SubSeq(q, 1, Len(p)) = p

\* vault 'rename' of a folder within its parent: the handler invalidates the cache
RenameFolder(path, name) ==
    LET target == Append(ParentOf(path), name)
        moved(q) == target \o SubSeq(q, Len(path) + 1, Len(q))
    IN  /\ ops < MaxOps
        /\ path \in vault
        /\ target \notin vault
        /\ vault' = {IF IsPrefix(path, q) THEN moved(q) ELSE q : q \in vault}
        /\ invalidateRootFoldersCache
        /\ ops' = ops + 1
        /\ UNCHANGED <<observer, folderConfigs, settings, now, awaiting>>

\* a folder (and its subfolders) is deleted: FolderManager registers no handler for it
DeleteFolder(path) ==
    /\ ops < MaxOps
    /\ path \in vault
    /\ vault' = {q \in vault : ~IsPrefix(path, q)}
    /\ ops' = ops + 1
    /\ UNCHANGED <<observer, folderConfigs, settings, rootFoldersCache, rootFoldersCacheTimestamp,
                   now, awaiting>>

\* { ...existing } with the properties of `config` that are not undefined written over it
ConfigFields == {"icon", "baseColor", "iconColor", "folderColor", "textColor",
                 "applyToSubfolders", "inheritBaseColor"}
\* mergeConfig stopping after the first property of `config` it writes
mergeConfigOneProperty(existing, config) ==
    LET given == DOMAIN config \cap ConfigFields
        written == IF given = {} THEN {} ELSE {CHOOSE f \in given : TRUE}
    IN  [k \in DOMAIN existing \cup written |->
            IF k \in written THEN config[k] ELSE existing[k]]

\* mergeConfig without the spread of the existing record: the new properties only
mergeConfigReplacesRecord(existing, config) ==
    [k \in DOMAIN config \cap ConfigFields |-> config[k]]

mergeConfig(existing, config) ==
    [k \in DOMAIN existing \cup (DOMAIN config \cap ConfigFields) |->
        IF k \in DOMAIN config THEN config[k] ELSE existing[k]]

\* the deletion flags of FolderConfigWithDeletions and the property each one names
DeletionFlags == {"__deleteBaseColor", "__deleteIconColor", "__deleteFolderColor",
                  "__deleteTextColor"}
FlaggedField(flag) ==
    CASE flag = "__deleteBaseColor" -> "baseColor"
      [] flag = "__deleteIconColor" -> "iconColor"
      [] flag = "__deleteFolderColor" -> "folderColor"
      [] flag = "__deleteTextColor" -> "textColor"

\* a call suspended at `await this.plugin.saveData(...)`
Suspended(op, path, config, existing) ==
    [op |-> op, path |-> path, config |-> config, existing |-> existing]

\* setFolderConfig reading `existing` as it was before a call on the same path that is
\* still suspended at its await
SetFolderConfigStaleRead(path, config) ==
    LET pending == {i \in DOMAIN awaiting : awaiting[i].path = path}
        existing == IF pending # {}
                    THEN awaiting[CHOOSE i \in pending : \A j \in pending : i <= j].existing
                    ELSE IF path \in DOMAIN folderConfigs THEN folderConfigs[path] ELSE <<>>
        merged == mergeConfig(existing, config)
    IN  /\ ops < MaxOps
        /\ \A flag \in DOMAIN config \cap DeletionFlags : FlaggedField(flag) \in DOMAIN existing
        /\ awaiting' = Append(awaiting, Suspended("setFolderConfig", path, config, existing))
        /\ folderConfigs' =
              IF DOMAIN merged = {}
              THEN [q \in DOMAIN folderConfigs \ {path} |-> folderConfigs[q]]
              ELSE [q \in DOMAIN folderConfigs \cup {path} |->
                       IF q = path THEN merged ELSE folderConfigs[q]]
        /\ ops' = ops + 1
        /\ UNCHANGED <<observer, vault, settings, rootFoldersCache, rootFoldersCacheTimestamp, now>>

\* setFolderConfig up to its await: the merged record is built and stored (or the entry is
\* deleted) and the call is suspended; ResumeAfterSave is its continuation.  The modal's
\* submit handler sets a deletion flag only for a property the stored override has.
SetFolderConfig(path, config) ==
    LET existing == IF path \in DOMAIN folderConfigs THEN folderConfigs[path] ELSE <<>>
        merged == mergeConfig(existing, config)
    IN  /\ ops < MaxOps
        /\ \A flag \in DOMAIN config \cap DeletionFlags : FlaggedField(flag) \in DOMAIN existing
        /\ awaiting' = Append(awaiting, Suspended("setFolderConfig", path, config, existing))
        /\ folderConfigs' =
              IF DOMAIN merged = {}
              THEN [q \in DOMAIN folderConfigs \ {path} |-> folderConfigs[q]]
              ELSE [q \in DOMAIN folderConfigs \cup {path} |->
                       IF q = path THEN merged ELSE folderConfigs[q]]
        /\ ops' = ops + 1
        /\ UNCHANGED <<observer, vault, settings, rootFoldersCache, rootFoldersCacheTimestamp, now>>

\* removeFolderConfig up to its await; ResumeAfterSave is its continuation
RemoveFolderConfig(path) ==
    /\ ops < MaxOps
    /\ path \in DOMAIN folderConfigs
    /\ awaiting' = Append(awaiting, Suspended("removeFolderConfig", path, <<>>,
                                               folderConfigs[path]))
    /\ folderConfigs' = [q \in DOMAIN folderConfigs \ {path} |-> folderConfigs[q]]
    /\ ops' = ops + 1
    /\ UNCHANGED <<observer, vault, settings, rootFoldersCache, rootFoldersCacheTimestamp, now>>

ElementColors == {"iconColor", "folderColor", "textColor"}

\* the clean-up loop of updateSettings on one override: a saved element colour equal to
\* the computed one is deleted.  getComputedColors returns a saved element colour as it
\* is, so the test `computedColors.k && config.k === computedColors.k` succeeds exactly
\* when config.k is a non-empty string.
cleanedConfig(config) ==
    [k \in {f \in DOMAIN config : ~(f \in ElementColors /\ Truthy(config[f]))} |-> config[k]]

\* updateSettings(newSettings): the cache is invalidated, the overrides are cleaned, and
\* applyAllStyles runs at once unless saveData is awaited first (ResumeAfterSave is then
\* the continuation)
updateSettings(newSettings) ==
    LET cleaned == [q \in DOMAIN folderConfigs |-> cleanedConfig(folderConfigs[q])]
        configsChanged == cleaned # folderConfigs
        afterLoop == cacheAfterCalls(vault, folderConfigs, newSettings, NullCache, 0, now,
                                     DOMAIN folderConfigs)
        afterStyles == cacheAfterCalls(vault, cleaned, newSettings, afterLoop.cache,
                                       afterLoop.timestamp, now, styledFolders(vault))
        after == IF configsChanged THEN afterLoop ELSE afterStyles
    IN  /\ settings' = newSettings
        /\ folderConfigs' = cleaned
        /\ rootFoldersCache' = after.cache
        /\ rootFoldersCacheTimestamp' = after.timestamp
        /\ awaiting' = IF configsChanged
                       THEN Append(awaiting, Suspended("updateSettings", <<>>, <<>>, <<>>))
                       ELSE awaiting
        /\ UNCHANGED <<observer, vault, now>>

\* saveData has resolved for the i-th suspended call: it goes on to applyAllStyles()
ResumeAfterSave(i) ==
    LET after == cacheAfterCalls(vault, folderConfigs, settings, rootFoldersCache,
                                 rootFoldersCacheTimestamp, now, styledFolders(vault))
    IN  /\ i \in 1..Len(awaiting)
        /\ awaiting' = SubSeq(awaiting, 1, i - 1) \o SubSeq(awaiting, i + 1, Len(awaiting))
        /\ rootFoldersCache' = after.cache
        /\ rootFoldersCacheTimestamp' = after.timestamp
        /\ UNCHANGED <<observer, vault, folderConfigs, settings, now, ops>>

\* a settings-tab edit: the property is assigned, saveSettings calls updateSettings
EditSetting(key, value) ==
    /\ ops < MaxOps
    /\ settings[key] # value
    /\ updateSettings([settings EXCEPT ![key] = value])
    /\ ops' = ops + 1

\* updateSettings called with the settings unchanged (the handlers' second call)
UpdateSettingsAgain ==
    /\ ops < MaxOps
    /\ updateSettings(settings)
    /\ ops' = ops + 1

(***************************************************************************)
(* startObserving: the MutationObserver on the file explorer               *)
(***************************************************************************)
\* attached: observer.observe(fileExplorer, ...) has been called
\* timeout: the debounce timer of the callback is pending
\* isApplying: the flag of the callback, set by a debounced run until its reset timer fires
\* focused: an input of the file explorer has the focus
\* blurTimer: the timer set by the blur handler is pending
\* mutationSinceRun: a mutation was delivered to the callback while no input was focused
\*   and no applyAllStyles run has started since
ObserverDetached ==
    [attached |-> FALSE, timeout |-> FALSE, isApplying |-> FALSE, focused |-> FALSE,
     blurTimer |-> FALSE, mutationSinceRun |-> FALSE]

\* startObserving finds the file explorer (until then it retries every 100 ms)
StartObserving ==
    /\ ~observer.attached
    /\ observer' = [observer EXCEPT !.attached = TRUE]
    /\ UNCHANGED <<vault, folderConfigs, settings, rootFoldersCache,
                   rootFoldersCacheTimestamp, now, ops, awaiting>>

\* the MutationObserver callback: it returns when an input is focused or isApplying is
\* set, and otherwise clears the pending timer and sets a new one
DeliverMutation ==
    /\ observer.attached
    /\ observer' =
          IF observer.focused THEN observer
          ELSE IF observer.isApplying THEN [observer EXCEPT !.mutationSinceRun = TRUE]
          ELSE [observer EXCEPT !.timeout = TRUE, !.mutationSinceRun = TRUE]
    /\ UNCHANGED <<vault, folderConfigs, settings, rootFoldersCache,
                   rootFoldersCacheTimestamp, now, ops, awaiting>>

\* the user starts renaming a folder
FocusInput ==
    /\ observer.attached /\ ~observer.focused
    /\ observer' = [observer EXCEPT !.focused = TRUE]
    /\ UNCHANGED <<vault, folderConfigs, settings, rootFoldersCache,
                   rootFoldersCacheTimestamp, now, ops, awaiting>>

\* focusChangeHandler: the input loses the focus, applyAllStyles is set to run 50 ms later
BlurInput ==
    /\ observer.focused
    /\ observer' = [observer EXCEPT !.focused = FALSE, !.blurTimer = TRUE]
    /\ UNCHANGED <<vault, folderConfigs, settings, rootFoldersCache,
                   rootFoldersCacheTimestamp, now, ops, awaiting>>

\* the debounce timer fires: isApplying = true, applyAllStyles(), reset timer set
DebounceTimerFires ==
    LET after == cacheAfterCalls(vault, folderConfigs, settings, rootFoldersCache,
                                 rootFoldersCacheTimestamp, now, styledFolders(vault))
    IN  /\ observer.timeout
        /\ observer' = [observer EXCEPT !.timeout = FALSE, !.isApplying = TRUE,
                                        !.mutationSinceRun = FALSE]
        /\ rootFoldersCache' = after.cache
        /\ rootFoldersCacheTimestamp' = after.timestamp
        /\ UNCHANGED <<vault, folderConfigs, settings, now, ops, awaiting>>

\* the reset timer of a debounced run fires: isApplying = false
ResetTimerFires ==
    /\ observer.isApplying
    /\ observer' = [observer EXCEPT !.isApplying = FALSE]
    /\ UNCHANGED <<vault, folderConfigs, settings, rootFoldersCache,
                   rootFoldersCacheTimestamp, now, ops, awaiting>>

\* the timer of the blur handler fires: applyAllStyles()
BlurTimerFires ==
    LET after == cacheAfterCalls(vault, folderConfigs, settings, rootFoldersCache,
                                 rootFoldersCacheTimestamp, now, styledFolders(vault))
    IN  /\ observer.blurTimer
        /\ observer' = [observer EXCEPT !.blurTimer = FALSE, !.mutationSinceRun = FALSE]
        /\ rootFoldersCache' = after.cache
        /\ rootFoldersCacheTimestamp' = after.timestamp
        /\ UNCHANGED <<vault, folderConfigs, settings, now, ops, awaiting>>

(***************************************************************************)
(* The plugin as a state machine                                           *)
(***************************************************************************)
\* the vault when the plugin is loaded
InitVault ==
    {<<"a">>, <<"B">>, <<"c">>,
     <<"a", "a">>, <<"a", "B">>,
     <<"a", "a", "c">>, <<"a", "B", "c">>}

\* data.json when the plugin is loaded: a fresh install, or settings saved earlier (the
\* last with an active palette index that names no palette)
PersistedSettings ==
    {DefaultSettings,
     [DefaultSettings EXCEPT !.autoColorEnabled = TRUE, !.autoColorMode = "repeat",
        !.folderColorOpacity = 100,
        !.childBaseTransformation = [type |-> "lightness", adjustment |-> 0,
                                     useGradient |-> TRUE, backgroundOpacity |-> 50]],
     [DefaultSettings EXCEPT !.autoColorEnabled = TRUE,
        !.activePaletteIndex = Len(ModelPalettes)]}

PersistedConfigs ==
    {<<>>,
     (<<"a">> :> [baseColor |-> Blue]) @@ (<<"c">> :> [folderColor |-> Green]),
     (<<"a">> :> [baseColor |-> Blue]) @@ (<<"a", "B">> :> [inheritBaseColor |-> FALSE])}

\* the updates setFolderConfig is called with
ConfigUpdates ==
    {[baseColor |-> Red], [baseColor |-> NotAColor], [inheritBaseColor |-> FALSE],
     [inheritBaseColor |-> TRUE], [folderColor |-> Green, iconColor |-> Black],
     [icon |-> <<"x">>, applyToSubfolders |-> TRUE],
     [__deleteBaseColor |-> TRUE]}

\* the values a settings-tab control can store
SettingValues(key) ==
    CASE key = "autoColorEnabled" -> BOOLEAN
      [] key = "autoColorMode" -> {"gradient", "repeat"}
      [] key = "activePaletteIndex" -> 0..(Len(ModelPalettes) - 1)
      [] key = "childBaseTransformation" -> ChildTransformations
      [] key = "folderColorTransformation" -> ElementTransformations
      [] key = "folderColorOpacity" -> {0, 50, 100}
SettingKeys == {"autoColorEnabled", "autoColorMode", "activePaletteIndex",
                "childBaseTransformation", "folderColorTransformation", "folderColorOpacity"}

Init ==
    /\ vault = InitVault
    /\ folderConfigs \in PersistedConfigs
    /\ settings \in PersistedSettings
    /\ rootFoldersCache = NullCache
    /\ rootFoldersCacheTimestamp = 0
    /\ now = 0
    /\ ops = 0
    /\ awaiting = <<>>
    /\ observer = ObserverDetached

Next ==
    \/ applyAllStyles
    \/ \E path \in AllPaths : CallGetComputedColors(path)
    \/ Tick
    \/ \E path \in AllPaths : CreateFolder(path)
    \/ \E path \in AllPaths, name \in SegNames : RenameFolder(path, name)
    \/ \E path \in AllPaths : DeleteFolder(path)
    \/ \E path \in vault, config \in ConfigUpdates : SetFolderConfig(path, config)
    \/ \E path \in AllPaths : RemoveFolderConfig(path)
    \/ \E key \in SettingKeys : \E value \in SettingValues(key) : EditSetting(key, value)
    \/ UpdateSettingsAgain
    \/ \E i \in 1..MaxOps : ResumeAfterSave(i)

Spec == Init /\ [][Next]_vars

(***************************************************************************)
(* The resolvers as functions of the loaded configuration: the inputs are  *)
(* drawn from bounded sets and the calls are applied to them               *)
(***************************************************************************)
\* auto-colouring: off, gradient or repeat over the two-colour palette, gradient over
\* the one-colour palette, the empty palette, a palette index that does not exist
AutoColorSetups ==
    {[enabled |-> FALSE, mode |-> "gradient", index |-> 0],
     [enabled |-> TRUE, mode |-> "gradient", index |-> 0],
     [enabled |-> TRUE, mode |-> "repeat", index |-> 0],
     [enabled |-> TRUE, mode |-> "gradient", index |-> 1],
     [enabled |-> TRUE, mode |-> "repeat", index |-> 2],
     [enabled |-> TRUE, mode |-> "gradient", index |-> Len(ModelPalettes)]}

\* childBaseTransformation as loaded: data.json is not validated on load
LoadedChildTransformations ==
    ChildTransformations
    \cup {[type |-> "lightness", adjustment |-> 10, useGradient |-> FALSE,
           backgroundOpacity |-> 150]}

\* folderColorOpacity as loaded
LoadedOpacities == {100, 150}

\* the icon, folder and text transformations
ElementSetups ==
    {[icon |-> [type |-> "none"], folder |-> [type |-> "none"],
      text |-> [type |-> "lightness", adjustment |-> 20]],
     [icon |-> [type |-> "lightness", adjustment |-> 20],
      folder |-> [type |-> "hsl", hue |-> -30, saturation |-> 10, lightness |-> 0],
      text |-> [type |-> "none"]]}

LoadedSettings ==
    {[colorPalettes |-> ModelPalettes,
      activePaletteIndex |-> auto.index,
      autoColorEnabled |-> auto.enabled,
      autoColorMode |-> auto.mode,
      iconColorTransformation |-> elem.icon,
      folderColorTransformation |-> elem.folder,
      textColorTransformation |-> elem.text,
      childBaseTransformation |-> child,
      folderColorOpacity |-> opacity] :
        auto \in AutoColorSetups, elem \in ElementSetups,
        child \in LoadedChildTransformations, opacity \in LoadedOpacities}

\* overrides as loaded: none, one folder, a folder and one of its descendants, or two
\* sibling folders
LoadedOverrides ==
    {[baseColor |-> Blue],
     [inheritBaseColor |-> FALSE],
     [baseColor |-> Red, inheritBaseColor |-> FALSE],
     [folderColor |-> Green, iconColor |-> Black],
     [baseColor |-> NotAColor, textColor |-> Red]}
OverridePaths == {<<"a">>, <<"a", "B">>, <<"a", "B", "c">>, <<"c", "a">>}
LoadedConfigs ==
    {<<>>}
    \cup {p :> o : p \in OverridePaths, o \in LoadedOverrides}
    \cup {(<<"a">> :> o) @@ r :
            o \in {[inheritBaseColor |-> FALSE],
                    [baseColor |-> Red, inheritBaseColor |-> FALSE]},
            r \in {<<"a", "B", "c">> :> [baseColor |-> Blue],
                    <<"a", "B", "c">> :> [folderColor |-> Green, iconColor |-> Black],
                    <<"a", "B">> :> [baseColor |-> Blue]}}
    \cup {(<<"a">> :> o) @@ (<<"a", "B">> :> [inheritBaseColor |-> FALSE]) :
            o \in LoadedOverrides}
    \cup {(<<"a", "a">> :> [baseColor |-> Black]) @@ (<<"a", "B">> :> [baseColor |-> White])}

ResolverInit ==
    /\ vault = InitVault
    /\ folderConfigs \in LoadedConfigs
    /\ settings \in LoadedSettings
    /\ rootFoldersCache = NullCache
    /\ rootFoldersCacheTimestamp = 0
    /\ now = 0
    /\ ops = 0
    /\ awaiting = <<>>
    /\ observer = ObserverDetached

ResolverNext ==
    \/ applyAllStyles
    \/ \E path \in AllPaths : CallGetComputedColors(path)

ResolverSpec == ResolverInit /\ [][ResolverNext]_vars

(***************************************************************************)
(* Inheritance on loaded configurations: the overrides of LoadedConfigs    *)
(* under every loaded auto-colouring set-up, child transformation and      *)
(* opacity, with the default element transformations                       *)
(***************************************************************************)
InheritanceSettings ==
    {[DefaultSettings EXCEPT !.autoColorEnabled = auto.enabled,
                             !.autoColorMode = auto.mode,
                             !.activePaletteIndex = auto.index,
                             !.childBaseTransformation = child,
                             !.folderColorOpacity = opacity] :
        auto \in AutoColorSetups, child \in LoadedChildTransformations,
        opacity \in LoadedOpacities}

InheritanceInit ==
    /\ vault = InitVault
    /\ folderConfigs \in LoadedConfigs
    /\ settings \in InheritanceSettings
    /\ rootFoldersCache = NullCache
    /\ rootFoldersCacheTimestamp = 0
    /\ now = 0
    /\ ops = 0
    /\ awaiting = <<>>
    /\ observer = ObserverDetached

InheritanceNext ==
    \/ applyAllStyles
    \/ \E path \in AllPaths : CallGetComputedColors(path)

InheritanceSpec == InheritanceInit /\ [][InheritanceNext]_vars

(***************************************************************************)
(* Properties of the resolvers                                             *)
(***************************************************************************)
\* the clean-up loop of updateSettings on one override, with the computed colours taken
\* from getComputedColors as the loop takes them
cleanedConfigComputed(self, path) ==
    LET config == self.folderConfigs[path]
        computedColors == getComputedColors(self, path)
        matches(k) == /\ k \in DOMAIN computedColors
                      /\ Truthy(computedColors[k])
                      /\ k \in DOMAIN config
                      /\ config[k] = computedColors[k]
    IN  [k \in {f \in DOMAIN config : ~(f \in ElementColors /\ matches(f))} |-> config[k]]

\* what the operations take from the resolvers agrees with the resolvers: the number of
\* auto-colours, which base colours resolve, and which element colours the clean-up deletes
OperationsAgreeWithResolvers ==
    /\ autoColorCount(Self, Self.rootFolders) = Len(generateAutoColors(Self, Self.rootFolders))
    /\ \A p \in AllPaths : baseColorResolves(Self, p) <=> Truthy(getBaseColor(Self, p))
    /\ \A p \in DOMAIN folderConfigs :
          cleanedConfig(folderConfigs[p]) = cleanedConfigComputed(Self, p)

\* the override of `path` sets baseColor (to a non-empty string)
HasBaseColorOverride(path) ==
    /\ path \in DOMAIN folderConfigs
    /\ "baseColor" \in DOMAIN folderConfigs[path]

\* some ancestor of `path` has an override with inheritBaseColor === false
HasBlockingAncestor(path) ==
    \E i \in 1..(Len(path) - 1) :
        /\ SubSeq(path, 1, i) \in DOMAIN folderConfigs
        /\ "inheritBaseColor" \in DOMAIN folderConfigs[SubSeq(path, 1, i)]
        /\ folderConfigs[SubSeq(path, 1, i)].inheritBaseColor = FALSE

\* C1: a folder whose override sets baseColor has exactly that base colour, whatever the
\* palette, the auto-colouring mode, the child transformation, the parent's colour and the
\* ancestors' inheritBaseColor flags are.
C1_ExplicitBaseColorWins ==
    \A p \in AllPaths :
        HasBaseColorOverride(p) => getBaseColor(Self, p) = folderConfigs[p].baseColor

\* C1's case: the resolvers have run (the root list is cached), auto-colouring is on, the root
\* "a" has the explicit colour Red where the palette would give another one, and "a/B/c" has
\* the explicit colour Blue below an ancestor that disables inheritance.
C1_Witness ==
    /\ ~rootFoldersCache.isNull
    /\ settings.autoColorEnabled /\ settings.activePaletteIndex = 1
    /\ HasBaseColorOverride(<<"a">>) /\ getBaseColor(Self, <<"a">>) = Red
    /\ HasBaseColorOverride(<<"a", "B", "c">>) /\ HasBlockingAncestor(<<"a", "B", "c">>)
    /\ getBaseColor(Self, <<"a", "B", "c">>) = Blue

\* C2: a non-root folder without an explicit baseColor has no base colour when any of its
\* ancestors, not only its parent, has inheritBaseColor === false.
C2_BlockedInheritanceGivesNoBaseColor ==
    \A p \in AllPaths :
        (Len(p) > 1 /\ ~HasBaseColorOverride(p) /\ HasBlockingAncestor(p))
            => getBaseColor(Self, p) = Undefined

\* C2's case: "a" disables inheritance, its child "a/B" has the explicit colour Blue, the
\* child transformation is not 'none', and "a/B/c" still has no base colour.
C2_Witness ==
    /\ ~rootFoldersCache.isNull
    /\ settings.childBaseTransformation.type # "none"
    /\ InheritanceDisabledAt(Self, <<"a">>)
    /\ ~InheritanceDisabledAt(Self, <<"a", "B">>)
    /\ getBaseColor(Self, <<"a", "B">>) = Blue
    /\ ~HasBaseColorOverride(<<"a", "B", "c">>)
    /\ getBaseColor(Self, <<"a", "B", "c">>) = Undefined

BackgroundOpacityOrDefault ==
    IF "backgroundOpacity" \in DOMAIN settings.childBaseTransformation
    THEN settings.childBaseTransformation.backgroundOpacity
    ELSE 100

\* folderColorOpacity * (backgroundOpacity / 100)^k
OpacityProduct(k) ==
    FMul(Num(settings.folderColorOpacity), FPow(Frac(BackgroundOpacityOrDefault, 100), k))

\* the opacity of a root is the global one, and that of an unblocked non-root folder is its
\* parent's times backgroundOpacity / 100, clamped to 0..100
OpacityRecursion(p) ==
    LET opacity == getComputedOpacity(Self, p)
    IN  /\ Len(p) = 1 => opacity = Num(settings.folderColorOpacity)
        /\ (Len(p) > 1 /\ ~HasBlockingAncestor(p))
              => opacity = FClamp(FMul(getComputedOpacity(Self, ParentOf(p)),
                                       Frac(BackgroundOpacityOrDefault, 100)), 0, 100)

C5_OpacityWithinRange ==
    \A p \in AllPaths :
        /\ FLe(Num(0), getComputedOpacity(Self, p))
        /\ FLe(getComputedOpacity(Self, p), Num(100))

\* C6 as amended: a folder without an explicit baseColor has no base colour when it is a
\* root folder with auto-colouring disabled, or a non-root folder with inheritance blocked
\* by an ancestor, or a non-root folder while the child transformation type is 'none'.
C6_NoBaseColorCases ==
    \A p \in AllPaths :
        (/\ ~HasBaseColorOverride(p)
         /\ \/ Len(p) = 1 /\ ~settings.autoColorEnabled
            \/ Len(p) > 1 /\ HasBlockingAncestor(p)
            \/ Len(p) > 1 /\ settings.childBaseTransformation.type = "none")
            => getBaseColor(Self, p) = Undefined

\* C6's case: the resolvers have run while the child transformation type is 'none' and
\* auto-colouring is on: the root "a" has a palette colour and its child "a/a" has none.
C6_Witness ==
    /\ ~rootFoldersCache.isNull
    /\ settings.childBaseTransformation.type = "none"
    /\ settings.autoColorEnabled
    /\ ~HasBaseColorOverride(<<"a">>) /\ Truthy(getBaseColor(Self, <<"a">>))
    /\ ~HasBaseColorOverride(<<"a", "a">>) /\ getBaseColor(Self, <<"a", "a">>) = Undefined

\* C6 as stated: no explicit baseColor and (a root folder with auto-colouring disabled, or
\* a non-root folder with inheritance blocked, or the child transformation type 'none')
\* give no base colour.
C6_AsStated ==
    \A p \in AllPaths :
        (/\ ~HasBaseColorOverride(p)
         /\ \/ Len(p) = 1 /\ ~settings.autoColorEnabled
            \/ Len(p) > 1 /\ HasBlockingAncestor(p)
            \/ settings.childBaseTransformation.type = "none")
            => getBaseColor(Self, p) = Undefined

\* C7: while the child transformation type is 'none', a non-root folder without an explicit
\* baseColor has no base colour whatever its parent's colour is, and this carries on
\* downwards: neither has a subfolder of it without an explicit baseColor of its own.
C7_TypeNoneStopsInheritance ==
    settings.childBaseTransformation.type = "none"
        => \A p \in AllPaths :
              (Len(p) > 1 /\ ~HasBaseColorOverride(p))
                  => /\ getBaseColor(Self, p) = Undefined
                     /\ \A name \in SegNames :
                           (Len(p) < MaxDepth /\ ~HasBaseColorOverride(Append(p, name)))
                               => getBaseColor(Self, Append(p, name)) = Undefined

\* C7's case: the resolvers have run, the type is 'none', "a/B" has the explicit colour Blue
\* and no folder disables inheritance: "a/B/c" has no base colour although its parent has one.
C7_Witness ==
    /\ ~rootFoldersCache.isNull
    /\ settings.childBaseTransformation.type = "none"
    /\ getBaseColor(Self, <<"a", "B">>) = Blue
    /\ ~HasBlockingAncestor(<<"a", "B", "c">>)
    /\ ~HasBaseColorOverride(<<"a", "B", "c">>)
    /\ getBaseColor(Self, <<"a", "B", "c">>) = Undefined

\* the global transformation of an element colour
ElementTransformation(k) ==
    IF k = "iconColor" THEN settings.iconColorTransformation
    ELSE IF k = "folderColor" THEN settings.folderColorTransformation
    ELSE settings.textColorTransformation

\* the override of `path` sets the element colour k
HasElementOverride(path, k) ==
    path \in DOMAIN folderConfigs /\ k \in DOMAIN folderConfigs[path]

\* the folders getComputedColors is called for: those of the vault (applyAllStyles, the
\* modal) and those with an override (the loop of updateSettings)
ResolvedPaths == vault \cup DOMAIN folderConfigs

\* C9: getComputedColors decides each of iconColor, folderColor and textColor on its own:
\* the override's value verbatim when the override sets it, else the element's global
\* transformation of the base colour when the base colour resolves, else absent.
C9_ElementColoursDecidedIndependently ==
    \A p \in ResolvedPaths :
        LET colors == getComputedColors(Self, p)
            baseColor == getBaseColor(Self, p)
        IN  \A k \in ElementColors :
                IF HasElementOverride(p, k)
                THEN k \in DOMAIN colors /\ colors[k] = folderConfigs[p][k]
                ELSE IF baseColor # Undefined
                THEN k \in DOMAIN colors
                     /\ colors[k] = applyTransformation(baseColor, ElementTransformation(k))
                ELSE k \notin DOMAIN colors

\* C9's case: the resolvers have run; "a/B/c" inherits a base colour, its override sets
\* iconColor and folderColor, which are returned verbatim, and its textColor is the text
\* transformation of the base colour, which changes it.
C9_Witness ==
    LET p == <<"a", "B", "c">>
        colors == getComputedColors(Self, p)
    IN  /\ ~rootFoldersCache.isNull
        /\ HasElementOverride(p, "iconColor") /\ HasElementOverride(p, "folderColor")
        /\ ~HasElementOverride(p, "textColor")
        /\ Truthy(getBaseColor(Self, p))
        /\ DOMAIN colors = ElementColors
        /\ colors.iconColor = Black /\ colors.folderColor = Green
        /\ colors.textColor # getBaseColor(Self, p)
        /\ colors.textColor = applyTransformation(getBaseColor(Self, p),
                                                  settings.textColorTransformation)

\* the colours of the active palette, none when the palette is missing
ActivePaletteColors ==
    IF settings.activePaletteIndex + 1 \in 1..Len(settings.colorPalettes)
    THEN settings.colorPalettes[settings.activePaletteIndex + 1]
    ELSE <<>>

\* the auto-colour sequence for `count` root folders
AutoColorSequence(count) ==
    IF count = 0 \/ Len(ActivePaletteColors) = 0 THEN <<>>
    ELSE IF settings.autoColorMode = "gradient"
    THEN generateGradientColors(ActivePaletteColors, count)
    ELSE generateRepeatingColors(ActivePaletteColors, count)

\* C8: with auto-colouring enabled, a root-level path without an explicit baseColor has
\* element i of the auto-colour sequence (gradient or repeating, from the active palette,
\* one colour per listed root folder), i its index in the list getRootFolders() returns;
\* it has no base colour when it is not in the list, the palette is missing or empty, or
\* i is past the end of the sequence.
C8_RootAutoColor ==
    \A p \in AllPaths :
        (Len(p) = 1 /\ settings.autoColorEnabled /\ ~HasBaseColorOverride(p))
            => LET rootFolders == Self.rootFolders
                   i == IndexOf(rootFolders, p)
                   sequence == AutoColorSequence(Len(rootFolders))
               IN  getBaseColor(Self, p) =
                      IF i >= 0 /\ i < Len(sequence) THEN sequence[i + 1] ELSE Undefined

\* C8's case: auto-colouring in repeating mode over the two-colour palette with the list of
\* roots cached: "B" (index 1) has the second colour, and a root-level path that is not in
\* the cached list has no base colour.
C8_Witness ==
    /\ ~rootFoldersCache.isNull
    /\ settings.autoColorEnabled /\ settings.autoColorMode = "repeat"
    /\ settings.activePaletteIndex = 0
    /\ IndexOf(Self.rootFolders, <<"B">>) = 1
    /\ ~HasBaseColorOverride(<<"B">>) /\ getBaseColor(Self, <<"B">>) = Green
    /\ \E p \in AllPaths :
          /\ Len(p) = 1 /\ IndexOf(Self.rootFolders, p) = -1
          /\ getBaseColor(Self, p) = Undefined

\* what the resolvers read after the step
SelfAfter ==
    [vault |-> vault', folderConfigs |-> folderConfigs', settings |-> settings',
     rootFolders |-> getRootFolders(vault', rootFoldersCache', rootFoldersCacheTimestamp', now')]

\* C10 as stated: over a step that changes no override, no setting and no folder, the
\* result of getComputedColors(p) stays the same for every folder p, whether the step
\* populates the root-folder cache, reads it or lets it expire.
C10_RepeatedCallsAgree ==
    [][ops' = ops =>
          \A p \in ResolvedPaths :
              getComputedColors(SelfAfter, p) = getComputedColors(Self, p)]_vars

(***************************************************************************)
(* Properties of the root-folder cache                                     *)
(***************************************************************************)
\* C11 as stated: over every step in which a folder is created, renamed or removed, the
\* root-folder cache is invalidated, so that the next getRootFolders() call enumerates the
\* vault again instead of returning the list cached before the event.
C11_VaultEventsInvalidateCache ==
    [][vault' # vault
          => ~cacheIsValid(rootFoldersCache', rootFoldersCacheTimestamp', now')]_vars

\* the root-folder cache holds a list of age ROOT_FOLDERS_CACHE_DURATION or more
CacheExpired ==
    ~rootFoldersCache.isNull /\ now - rootFoldersCacheTimestamp >= ROOT_FOLDERS_CACHE_DURATION

\* C12: getRootFolders() never returns a cached list of age 5000 ms or more: at that age
\* the list it returns is the enumeration of the vault, and a resolver step that calls it
\* then stores that enumeration and sets the timestamp to the current time.
C12_BoundedStaleness ==
    /\ [](CacheExpired => Self.rootFolders = enumerateRootFolders(vault))
    /\ [][(/\ CacheExpired
           /\ ops' = ops /\ now' = now
           /\ <<rootFoldersCache', rootFoldersCacheTimestamp'>>
                 # <<rootFoldersCache, rootFoldersCacheTimestamp>>)
             => /\ rootFoldersCache' = [isNull |-> FALSE, list |-> enumerateRootFolders(vault)]
                /\ rootFoldersCacheTimestamp' = now]_vars

\* C12's case: the list cached at time 0 still held the root "a" when "a" was deleted; it
\* expired at 5000 ms and the resolvers' next call stored the enumeration without "a",
\* with the timestamp 5000.
C12_Witness ==
    /\ <<"a">> \notin vault
    /\ ~rootFoldersCache.isNull
    /\ rootFoldersCacheTimestamp = ROOT_FOLDERS_CACHE_DURATION
    /\ now = rootFoldersCacheTimestamp
    /\ rootFoldersCache.list = enumerateRootFolders(vault)
    /\ rootFoldersCache.list = <<<<"B">>, <<"c">>>>

(***************************************************************************)
(* Properties of the override mutations                                    *)
(***************************************************************************)
\* the step suspends one more call at its await
SuspendsCall == Len(awaiting') = Len(awaiting) + 1
\* that call
SuspendedCall == awaiting'[Len(awaiting')]

\* C13: when setFolderConfig(path, update) reaches its await, the stored override of path
\* holds every property of the update, and the resolvers read it from then on: an explicit
\* baseColor or element colour of the update is what getBaseColor / getComputedColors
\* return for path; when removeFolderConfig(path) reaches its await, path has no override.
\* No other step writes an override: resolver calls made while a mutation is suspended,
\* and the continuation after saveData, leave every stored override as it is.
C13_MutationsAtomicForResolvers ==
    [][/\ (SuspendsCall /\ SuspendedCall.op = "setFolderConfig")
            => LET path == SuspendedCall.path
                   update == SuspendedCall.config
               IN  /\ \A f \in DOMAIN update \cap ConfigFields :
                          /\ path \in DOMAIN folderConfigs'
                          /\ f \in DOMAIN folderConfigs'[path]
                          /\ folderConfigs'[path][f] = update[f]
                   /\ ("baseColor" \in DOMAIN update /\ Truthy(update.baseColor))
                          => getBaseColor(SelfAfter, path) = update.baseColor
                   /\ \A k \in DOMAIN update \cap ElementColors :
                          Truthy(update[k])
                              => LET colors == getComputedColors(SelfAfter, path)
                                 IN  k \in DOMAIN colors /\ colors[k] = update[k]
       /\ (SuspendsCall /\ SuspendedCall.op = "removeFolderConfig")
            => SuspendedCall.path \notin DOMAIN folderConfigs'
       /\ ops' = ops => folderConfigs' = folderConfigs]_vars

\* C13's case: a setFolderConfig call with a folder colour and an icon colour is suspended
\* at its await and applyAllStyles has run meanwhile: the override holds both colours and
\* getComputedColors returns them.
C13_Witness ==
    /\ Len(awaiting) = 1
    /\ awaiting[1].op = "setFolderConfig"
    /\ DOMAIN awaiting[1].config = {"folderColor", "iconColor"}
    /\ ~rootFoldersCache.isNull
    /\ awaiting[1].path \in DOMAIN folderConfigs
    /\ LET colors == getComputedColors(Self, awaiting[1].path)
       IN  /\ colors.folderColor = awaiting[1].config.folderColor
           /\ colors.iconColor = awaiting[1].config.iconColor

\* the properties the override of `path` has in `configs`
StoredFields(configs, path) == IF path \in DOMAIN configs THEN DOMAIN configs[path] ELSE {}

\* C14: setFolderConfig(path, update) merges: after it the override of path has the
\* properties it had before and those of the update, each property of the update with the
\* update's value and each other one with its earlier value, and the overrides of all
\* other paths are what they were.
C14_SetFolderConfigMerges ==
    [][(SuspendsCall /\ SuspendedCall.op = "setFolderConfig")
          => LET path == SuspendedCall.path
                 update == SuspendedCall.config
                 given == DOMAIN update \cap ConfigFields
                 before == StoredFields(folderConfigs, path)
             IN  /\ StoredFields(folderConfigs', path) = before \cup given
                 /\ \A f \in given : folderConfigs'[path][f] = update[f]
                 /\ \A f \in before \ given : folderConfigs'[path][f] = folderConfigs[path][f]
                 /\ DOMAIN folderConfigs' \ {path} = DOMAIN folderConfigs \ {path}
                 /\ \A q \in DOMAIN folderConfigs \ {path} :
                        folderConfigs'[q] = folderConfigs[q]]_vars

\* C14's case: setFolderConfig("a", {folderColor, iconColor}) on an override that had a
\* baseColor, while "a/B" has an override too: "a" keeps its baseColor beside the two new
\* colours and "a/B" keeps its override.
C14_Witness ==
    /\ Len(awaiting) = 1
    /\ awaiting[1].op = "setFolderConfig"
    /\ awaiting[1].path = <<"a">>
    /\ DOMAIN awaiting[1].config = {"folderColor", "iconColor"}
    /\ DOMAIN awaiting[1].existing = {"baseColor"}
    /\ StoredFields(folderConfigs, <<"a">>) = {"baseColor", "folderColor", "iconColor"}
    /\ folderConfigs[<<"a">>].baseColor = awaiting[1].existing.baseColor
    /\ folderConfigs[<<"a">>].folderColor = Green
    /\ StoredFields(folderConfigs, <<"a", "B">>) = {"inheritBaseColor"}

\* C15 as stated: when the update of setFolderConfig(path, update) carries a deletion flag,
\* the override of path does not have the flagged property once the call has stored it.
C15_FlaggedFieldsAreRemoved ==
    [][(SuspendsCall /\ SuspendedCall.op = "setFolderConfig")
          => \A flag \in DOMAIN SuspendedCall.config \cap DeletionFlags :
                 FlaggedField(flag) \notin StoredFields(folderConfigs', SuspendedCall.path)]_vars

\* C16 as stated: no stored override is a record without properties.
C16_NoEmptyOverride ==
    \A p \in DOMAIN folderConfigs : DOMAIN folderConfigs[p] # {}

(***************************************************************************)
(* Properties of the stored settings                                       *)
(***************************************************************************)
\* the numeric parameters of a transformation are within their ranges
ParametersWithinRanges(t) ==
    /\ "adjustment" \in DOMAIN t => t.adjustment \in -100..100
    /\ "saturation" \in DOMAIN t => t.saturation \in -100..100
    /\ "lightness" \in DOMAIN t => t.lightness \in -100..100
    /\ "hue" \in DOMAIN t => t.hue \in -180..180
    /\ "backgroundOpacity" \in DOMAIN t => t.backgroundOpacity \in 0..100

\* C17 as stated: in every state the stored adjustment, saturation and lightness of each
\* transformation are within -100..100, its hue within -180..180, and folderColorOpacity
\* and backgroundOpacity within 0..100.
C17_StoredParametersWithinRanges ==
    /\ ParametersWithinRanges(settings.iconColorTransformation)
    /\ ParametersWithinRanges(settings.folderColorTransformation)
    /\ ParametersWithinRanges(settings.textColorTransformation)
    /\ ParametersWithinRanges(settings.childBaseTransformation)
    /\ settings.folderColorOpacity \in 0..100

(***************************************************************************)
(* Properties of updateSettings                                            *)
(***************************************************************************)
\* what the resolvers read in the clean-up loop of updateSettings: the new settings, the
\* overrides as they were, and a cache that has just been invalidated
SelfInCleanUp ==
    [vault |-> vault, folderConfigs |-> folderConfigs, settings |-> settings',
     rootFolders |-> enumerateRootFolders(vault)]

\* the colour derived for element k of `path` from its base colour and the element's
\* global transformation, in the clean-up loop
DerivedColor(path, k) ==
    LET baseColor == getBaseColor(SelfInCleanUp, path)
        transformation == IF k = "iconColor" THEN settings'.iconColorTransformation
                          ELSE IF k = "folderColor" THEN settings'.folderColorTransformation
                          ELSE settings'.textColorTransformation
    IN  IF Truthy(baseColor) THEN applyTransformation(baseColor, transformation)
        ELSE Undefined

\* C18 as stated: a step other than a setFolderConfig or removeFolderConfig call (an
\* updateSettings call among them) leaves every saved element colour that differs from
\* the derived colour stored, and getComputedColors still returns it.
C18_DifferingElementColourSurvives ==
    [][~(SuspendsCall /\ SuspendedCall.op \in {"setFolderConfig", "removeFolderConfig"})
          => \A p \in DOMAIN folderConfigs :
                \A k \in ElementColors \cap DOMAIN folderConfigs[p] :
                    (Truthy(folderConfigs[p][k]) /\ folderConfigs[p][k] # DerivedColor(p, k))
                        => /\ p \in DOMAIN folderConfigs'
                           /\ k \in DOMAIN folderConfigs'[p]
                           /\ folderConfigs'[p][k] = folderConfigs[p][k]
                           /\ getComputedColors(SelfAfter, p)[k] = folderConfigs[p][k]]_vars

(***************************************************************************)
(* Properties of the gradient                                              *)
(***************************************************************************)
\* the folder right after `parent` in the ordered list of its level: the root-folder list
\* for a root-level parent, the grandparent's ordered children otherwise; <<>> when the
\* parent is not in the list or is its last entry
NextSiblingOfParent(parent) ==
    LET level == IF Len(parent) = 1 THEN Self.rootFolders
                 ELSE LET names == getChildrenFolders(Self, ParentOf(parent))
                      IN  [i \in 1..Len(names) |-> Append(ParentOf(parent), names[i])]
        index == IndexOf(level, parent)
    IN  IF index >= 0 /\ index < Len(level) - 1 THEN level[index + 2] ELSE <<>>

\* the child transformation (lightness or HSL) applied to a colour
ChildTransformed(color) ==
    LET transformation == settings.childBaseTransformation
    IN  IF transformation.type = "hsl"
        THEN applyHSLTransformation(color, hslFields(transformation))
        ELSE applyLightnessTransformation(color, transformation.adjustment)

\* `path` gets its base colour from the gradient: it is a folder of the vault below the
\* root level without an explicit baseColor and with no blocking ancestor, the child
\* transformation is a lightness or HSL one with useGradient, the parent has a base
\* colour, and the parent has a next sibling whose base colour resolves
GradientApplies(path) ==
    /\ path \in vault /\ Len(path) > 1
    /\ ~HasBaseColorOverride(path) /\ ~HasBlockingAncestor(path)
    /\ settings.childBaseTransformation.type \in {"lightness", "hsl"}
    /\ "useGradient" \in DOMAIN settings.childBaseTransformation
    /\ settings.childBaseTransformation.useGradient
    /\ Truthy(getBaseColor(Self, ParentOf(path)))
    /\ NextSiblingOfParent(ParentOf(path)) # <<>>
    /\ Truthy(getBaseColor(Self, NextSiblingOfParent(ParentOf(path))))

\* C19: in gradient mode the base colour of a child is the child transformation of a
\* colour interpolated between the parent's base colour and the base colour getBaseColor
\* gives for the next sibling of the PARENT (the entry after the parent in the root-folder
\* list, or among the grandparent's ordered children), at one of the positions j/(n+1).
C19_GradientTargetIsParentsNextSibling ==
    \A p \in AllPaths :
        GradientApplies(p)
            => LET parentColor == getBaseColor(Self, ParentOf(p))
                   targetColor == getBaseColor(Self, NextSiblingOfParent(ParentOf(p)))
                   n == Len(getChildrenFolders(Self, ParentOf(p)))
               IN  \E j \in 1..n :
                       getBaseColor(Self, p) =
                           ChildTransformed(interpolateColor(parentColor, targetColor,
                                                             Frac(j, n + 1)))

\* C19's case: auto-colours over the palette [Red, Green]; the children of the root "a" are
\* interpolated towards the colour of the root "B", and the child of "a/a" towards the
\* colour of "a/B", the next entry among the children of "a".
C19_Witness ==
    /\ ~rootFoldersCache.isNull
    /\ settings.autoColorEnabled /\ settings.activePaletteIndex = 0
    /\ GradientApplies(<<"a", "a">>) /\ GradientApplies(<<"a", "a", "c">>)
    /\ NextSiblingOfParent(<<"a">>) = <<"B">>
    /\ NextSiblingOfParent(<<"a", "a">>) = <<"a", "B">>
    /\ getBaseColor(Self, <<"B">>) # getBaseColor(Self, <<"a", "B">>)
    /\ getBaseColor(Self, <<"a", "a">>) # ChildTransformed(getBaseColor(Self, <<"a">>))
    /\ getBaseColor(Self, <<"a", "a", "c">>)
          # ChildTransformed(getBaseColor(Self, <<"a", "a">>))

\* C20: in gradient mode the child at sorted index k (0-based) of a parent with n children
\* has the base colour T(interpolateColor(parentColor, nextSiblingColor, (k+1)/(n+1))),
\* T the lightness or HSL child transformation; an only child is at position 1/2, and
\* parent #000000, next sibling #FFFFFF and adjustment 0 give #808080.
C20_GradientPositionThenTransformation ==
    /\ \A p \in AllPaths :
          GradientApplies(p)
              => LET parentColor == getBaseColor(Self, ParentOf(p))
                     targetColor == getBaseColor(Self, NextSiblingOfParent(ParentOf(p)))
                     children == getChildrenFolders(Self, ParentOf(p))
                     n == Len(children)
                     k == IndexOf(children, NameOf(p))
                 IN  /\ getBaseColor(Self, p) =
                            ChildTransformed(interpolateColor(parentColor, targetColor,
                                                              Frac(k + 1, n + 1)))
                     /\ n = 1 => getBaseColor(Self, p) =
                                    ChildTransformed(interpolateColor(parentColor, targetColor,
                                                                      Frac(1, 2)))
    /\ applyLightnessTransformation(interpolateColor(Black, White, Frac(1, 2)), 0)
          = <<"#", "8", "0", "8", "0", "8", "0">>

\* C20's case: "a/a" is #000000 and its next sibling "a/B" #FFFFFF, the child
\* transformation is lightness 0 with the gradient: the only child of "a/a" is #808080;
\* and with two children of "a" the first and the second child differ.
C20_Witness ==
    /\ ~rootFoldersCache.isNull
    /\ settings.childBaseTransformation.type = "lightness"
    /\ settings.childBaseTransformation.adjustment = 0
    /\ GradientApplies(<<"a", "a", "c">>)
    /\ getBaseColor(Self, <<"a", "a">>) = Black
    /\ getBaseColor(Self, <<"a", "B">>) = White
    /\ Len(getChildrenFolders(Self, <<"a", "a">>)) = 1
    /\ getBaseColor(Self, <<"a", "a", "c">>) = <<"#", "8", "0", "8", "0", "8", "0">>

\* `path` is resolved in gradient mode: it is below the root level, has no explicit
\* baseColor and no blocking ancestor, and the child transformation is a lightness or HSL
\* one with useGradient
InGradientMode(path) ==
    /\ Len(path) > 1
    /\ ~HasBaseColorOverride(path) /\ ~HasBlockingAncestor(path)
    /\ settings.childBaseTransformation.type \in {"lightness", "hsl"}
    /\ "useGradient" \in DOMAIN settings.childBaseTransformation
    /\ settings.childBaseTransformation.useGradient

\* `path` inherits in gradient mode: its parent has a base colour
InheritsInGradientMode(path) ==
    InGradientMode(path) /\ Truthy(getBaseColor(Self, ParentOf(path)))

\* the folders of the vault and the paths right below one of them that name no folder
FoldersAndMissingChildren ==
    vault \cup {Append(q, name) : q \in {f \in vault : Len(f) < MaxDepth}, name \in SegNames}

\* C21: in gradient mode the base colour of a child is the child transformation of the
\* parent's colour itself when the parent has no enumerated children, the child is not
\* among the parent's children, the parent has no next sibling (it is the last entry of
\* its level or not in it), or the next sibling has no base colour.
C21_GradientDegeneratesToParentColour ==
    \A p \in FoldersAndMissingChildren \cup DOMAIN folderConfigs :
        InGradientMode(p)
            => LET parentColor == getBaseColor(Self, ParentOf(p))
                   children == getChildrenFolders(Self, ParentOf(p))
                   target == NextSiblingOfParent(ParentOf(p))
               IN  (/\ Truthy(parentColor)
                    /\ \/ Len(children) = 0
                       \/ IndexOf(children, NameOf(p)) < 0
                       \/ target = <<>>
                       \/ ~Truthy(getBaseColor(Self, target)))
                       => getBaseColor(Self, p) = ChildTransformed(parentColor)

\* C21's case: auto-colours over the palette [Red, Green] with the gradient: "a/B" is the
\* last child of "a", so its child "a/B/c" has the transformed colour of "a/B", while the
\* child of "a/a" is interpolated; and "c/a", which is not in the vault, has the
\* transformed colour of "c".
C21_Witness ==
    /\ ~rootFoldersCache.isNull
    /\ settings.autoColorEnabled /\ settings.activePaletteIndex = 0
    /\ InheritsInGradientMode(<<"a", "B", "c">>)
    /\ NextSiblingOfParent(<<"a", "B">>) = <<>>
    /\ getBaseColor(Self, <<"a", "B", "c">>)
          = ChildTransformed(getBaseColor(Self, <<"a", "B">>))
    /\ getBaseColor(Self, <<"a", "a", "c">>)
          # ChildTransformed(getBaseColor(Self, <<"a", "a">>))
    /\ InheritsInGradientMode(<<"c", "a">>) /\ <<"c", "a">> \notin vault
    /\ getBaseColor(Self, <<"c", "a">>) = ChildTransformed(getBaseColor(Self, <<"c">>))

(***************************************************************************)
(* generateGradientColors on bounded palettes                              *)
(***************************************************************************)
MaxPaletteLen == 3
MaxCount == 5

\* colours a palette of the settings tab can hold: upper-case and lower-case hex, and a
\* string that is not a hex colour
LowerRed == <<"#", "f", "f", "0", "0", "0", "0">>
PaletteColors == {Red, Green, LowerRed, NotAColor}
Palettes == UNION {[1..k -> PaletteColors] : k \in 1..MaxPaletteLen}

\* vaults with one, two and three root folders
PaletteVaults ==
    {{<<"a">>, <<"a", "B">>}, {<<"a">>, <<"B">>}, {<<"a">>, <<"B">>, <<"c">>}}

PaletteInit ==
    /\ vault \in PaletteVaults
    /\ folderConfigs = <<>>
    /\ \E palette \in Palettes :
           settings = [DefaultSettings EXCEPT !.colorPalettes = <<palette>>,
                                              !.autoColorEnabled = TRUE]
    /\ rootFoldersCache = NullCache
    /\ rootFoldersCacheTimestamp = 0
    /\ now = 0
    /\ ops = 0
    /\ awaiting = <<>>
    /\ observer = ObserverDetached

PaletteNext ==
    \/ applyAllStyles
    \/ \E path \in AllPaths : CallGetComputedColors(path)

PaletteSpec == PaletteInit /\ [][PaletteNext]_vars

ActivePalette == settings.colorPalettes[settings.activePaletteIndex + 1]

\* the colour as rgbToHex writes it: '#' and six lower-case digits
WrittenByRgbToHex(color) ==
    LET rgb == hexToRgb(color) IN rgbToHex(rgb.r, rgb.g, rgb.b)

Parses(color) == hexToRgb(color) # Null

\* element i (0-based) of `colors` is interpolated within a palette segment that
\* contains position i / (count - 1)
InterpolatedInItsSegment(palette, count, colors, i) ==
    LET segments == Len(palette) - 1
        position == Frac(i, count - 1)
    IN  \E s \in 0..(segments - 1) :
            /\ FLe(Frac(s, segments), position)
            /\ FLe(position, Frac(s + 1, segments))
            /\ colors[i + 1] =
                   interpolateColor(palette[s + 1], palette[s + 2],
                                    FMul(FSub(position, Frac(s, segments)), Num(segments)))

MalformedColors ==
    {NotAColor, <<"#", "F", "F">>, <<"#", "G", "G", "0", "0", "0", "0">>, EmptyString}

IsString(x) == x \in Seq(STRING)

HasMalformedBaseColor(p) ==
    /\ p \in DOMAIN folderConfigs
    /\ "baseColor" \in DOMAIN folderConfigs[p]
    /\ Truthy(folderConfigs[p].baseColor)
    /\ ~Parses(folderConfigs[p].baseColor)

\* C23: no colour function fails on a malformed hex string: interpolateColor returns its
\* first argument unchanged when either input does not parse, the lightness and HSL
\* transformations return their input unchanged, and so getBaseColor and getComputedColors
\* return values for configurations holding such strings (the malformed base colour itself
\* for the folder and for every element without an override)
C23_MalformedColoursPassThrough ==
    /\ \A c \in MalformedColors :
          /\ \A d \in MalformedColors \cup {Red} : \A f \in {Num(0), Frac(1, 2), Num(1)} :
                /\ interpolateColor(c, d, f) = c
                /\ interpolateColor(d, c, f) = d
          /\ \A adjustment \in {-20, 0, 20} :
                applyLightnessTransformation(c, adjustment) = c
          /\ \A t \in {<<>>, [hue |-> 30], [saturation |-> -10, lightness |-> 10]} :
                applyHSLTransformation(c, t) = c
    /\ \A p \in FoldersAndMissingChildren \cup DOMAIN folderConfigs :
          (\E q \in AncestorsOf(p) \cup {p} : HasMalformedBaseColor(q)) =>
          LET baseColor == getBaseColor(Self, p)
              colors == getComputedColors(Self, p)
          IN  /\ IsString(baseColor)
              /\ \A k \in DOMAIN colors : IsString(colors[k])
              /\ HasMalformedBaseColor(p)
                    => /\ baseColor = folderConfigs[p].baseColor
                       /\ \A k \in {"iconColor", "folderColor", "textColor"} :
                             k \notin DOMAIN folderConfigs[p] => colors[k] = baseColor

\* a folder below one with a malformed base colour inherits the string through a
\* lightness child transformation and an element transformation
C23_Witness ==
    /\ HasMalformedBaseColor(<<"a">>)
    /\ settings.childBaseTransformation.type = "lightness"
    /\ settings.childBaseTransformation.adjustment # 0
    /\ settings.textColorTransformation.type # "none"
    /\ getBaseColor(Self, <<"a", "B">>) = NotAColor
    /\ getComputedColors(Self, <<"a", "B">>).textColor = NotAColor
    /\ ~rootFoldersCache.isNull

(***************************************************************************)
(* Termination of getBaseColor                                             *)
(***************************************************************************)
\* C24: getBaseColor(path) terminates for every path, also in gradient mode: each call
\* it makes on itself (for the parent, and for the next sibling of the parent) is on a
\* path with at least one segment and strictly fewer segments than its own
C24_RecursiveCallsOnShorterPaths ==
    \A p \in AllPaths :
        LET calls == getBaseColorCalls(Self, p)
        IN  /\ \A q \in calls : Len(q) >= 1 /\ Len(q) < Len(p)
            /\ Len(p) = 1 => calls = {}

\* in gradient mode a/a/c asks for a/a and a/B, and a/a asks for a and B
C24_Witness ==
    /\ InGradientMode(<<"a", "a", "c">>)
    /\ getBaseColorCalls(Self, <<"a", "a", "c">>) = {<<"a", "a">>, <<"a", "B">>}
    /\ getBaseColorCalls(Self, <<"a", "a">>) = {<<"a">>, <<"B">>}
    /\ IsString(getBaseColor(Self, <<"a", "a", "c">>))
    /\ ~rootFoldersCache.isNull

(***************************************************************************)
(* Two setFolderConfig calls in flight                                      *)
(***************************************************************************)
\* the plugin as loaded, with room for two mutating calls
InterleavingInit ==
    /\ vault = InitVault
    /\ folderConfigs \in PersistedConfigs
    /\ settings = DefaultSettings
    /\ rootFoldersCache = NullCache
    /\ rootFoldersCacheTimestamp = 0
    /\ now = 0
    /\ ops = MaxOps - 2
    /\ awaiting = <<>>
    /\ observer = ObserverDetached

InterleavingNext ==
    \/ \E path \in vault, config \in ConfigUpdates : SetFolderConfig(path, config)
    \/ \E i \in DOMAIN awaiting : ResumeAfterSave(i)
    \/ applyAllStyles

InterleavingSpec == InterleavingInit /\ [][InterleavingNext]_vars

\* both of two suspended setFolderConfig calls are reflected in folderConfigs
BothMergesStored ==
    \A i, j \in DOMAIN awaiting :
        (i < j /\ awaiting[i].op = "setFolderConfig" /\ awaiting[j].op = "setFolderConfig")
            => LET first == awaiting[i]
                   second == awaiting[j]
                   given1 == DOMAIN first.config \cap ConfigFields
                   given2 == DOMAIN second.config \cap ConfigFields
                   samePath == first.path = second.path
                   overwritten == IF samePath THEN given2 ELSE {}
               IN  /\ StoredFields(folderConfigs, second.path)
                          = DOMAIN second.existing \cup given2
                   /\ \A f \in given2 : folderConfigs[second.path][f] = second.config[f]
                   /\ StoredFields(folderConfigs, first.path)
                          = DOMAIN first.existing \cup given1 \cup overwritten
                   /\ \A f \in given1 \ overwritten :
                          folderConfigs[first.path][f] = first.config[f]
                   /\ \A f \in (DOMAIN first.existing \ given1) \ overwritten :
                          folderConfigs[first.path][f] = first.existing[f]

\* C25: two setFolderConfig calls, on the same path or on different ones, that interleave
\* at their awaits lose neither update: once the second has reached its await the
\* overrides hold the merge of both updates (the later one winning a property both set),
\* and the continuations after saveData leave the overrides as they are
C25_InterleavedCallsLoseNoUpdate ==
    /\ []BothMergesStored
    /\ [][Len(awaiting') < Len(awaiting) => folderConfigs' = folderConfigs]_vars

\* setFolderConfig("a", {baseColor}) and setFolderConfig("a", {folderColor, iconColor})
\* both suspended at saveData, with "a" holding all three properties
C25_Witness ==
    /\ Len(awaiting) = 2
    /\ awaiting[1].path = <<"a">> /\ awaiting[2].path = <<"a">>
    /\ DOMAIN awaiting[1].config = {"baseColor"}
    /\ awaiting[1].existing = <<>>
    /\ DOMAIN awaiting[2].config = {"folderColor", "iconColor"}
    /\ StoredFields(folderConfigs, <<"a">>) = {"baseColor", "folderColor", "iconColor"}
    /\ folderConfigs[<<"a">>].baseColor = awaiting[1].config.baseColor

(***************************************************************************)
(* Opacity and base colour                                                 *)
(***************************************************************************)
ChildTypes == {"none", "lightness", "hsl"}

\* the current configuration with only childBaseTransformation.type replaced
WithChildType(type) ==
    [Self EXCEPT !.settings.childBaseTransformation.type = type]

HasFolderColorOverride(path) ==
    /\ path \in DOMAIN folderConfigs
    /\ "folderColor" \in DOMAIN folderConfigs[path]

WithOwnFlag(path, flag) ==
    LET existing == IF path \in DOMAIN folderConfigs THEN folderConfigs[path] ELSE <<>>
        flagged == [k \in DOMAIN existing \cup {"inheritBaseColor"} |->
                       IF k = "inheritBaseColor" THEN flag ELSE existing[k]]
    IN  [Self EXCEPT !.folderConfigs =
            [q \in DOMAIN folderConfigs \cup {path} |->
                IF q = path THEN flagged ELSE folderConfigs[q]]]

\* C28: a folder's own inheritBaseColor === false changes neither its own base colour nor
\* its own opacity: with its own flag switched between false and not false, getBaseColor
\* and getComputedOpacity return for it what they return now; only the flags of strict
\* ancestors are inspected
C28_OwnFlagDoesNotAffectFolder ==
    \A p \in vault \cup DOMAIN folderConfigs :
        LET flipped == WithOwnFlag(p, InheritanceDisabledAt(Self, p))
        IN  /\ InheritanceDisabledAt(flipped, p) # InheritanceDisabledAt(Self, p)
            /\ getBaseColor(flipped, p) = getBaseColor(Self, p)
            /\ getComputedOpacity(flipped, p) = getComputedOpacity(Self, p)

\* "a/B" inherits a colour and has a positive opacity; with its own flag set to false it
\* keeps both, while its child "a/B/c" loses its colour and gets opacity 0
C28_Witness ==
    /\ ~rootFoldersCache.isNull
    /\ ~HasBaseColorOverride(<<"a", "B">>) /\ ~HasBlockingAncestor(<<"a", "B">>)
    /\ ~InheritanceDisabledAt(Self, <<"a", "B">>)
    /\ Truthy(getBaseColor(Self, <<"a", "B">>))
    /\ FLt(Num(0), getComputedOpacity(Self, <<"a", "B">>))
    /\ getBaseColor(WithOwnFlag(<<"a", "B">>, FALSE), <<"a", "B">>)
          = getBaseColor(Self, <<"a", "B">>)
    /\ Truthy(getBaseColor(Self, <<"a", "B", "c">>))
    /\ getBaseColor(WithOwnFlag(<<"a", "B">>, FALSE), <<"a", "B", "c">>) = Undefined
    /\ getComputedOpacity(WithOwnFlag(<<"a", "B">>, FALSE), <<"a", "B", "c">>) = Num(0)

(***************************************************************************)
(* The modal's base colour and the manager's                               *)
(***************************************************************************)
\* the manager right after its root-folder cache has been rebuilt
FreshSelf == [Self EXCEPT !.rootFolders = enumerateRootFolders(vault)]

GradientOn(self) ==
    /\ "useGradient" \in DOMAIN self.settings.childBaseTransformation
    /\ self.settings.childBaseTransformation.useGradient

\* child transformations with properties left out, as data.json may hold them
PartialChildTransformations ==
    {[type |-> "hsl", lightness |-> 10], [type |-> "lightness"]}

\* C29: with gradient mode off, the modal's getBaseColorForPath returns for every path
\* the base colour FolderManager.getBaseColor returns with a fresh root-folder cache, also
\* for a child transformation with properties left out (put in place of the current one
\* in the states whose own is 'none': the replacement makes the other states equal to these)
C29_ModalAgreesWithManagerWithoutGradient ==
    \A p \in FoldersAndMissingChildren \cup DOMAIN folderConfigs :
        /\ ~GradientOn(FreshSelf)
              => getBaseColorForPath(FreshSelf, p) = getBaseColor(FreshSelf, p)
        /\ settings.childBaseTransformation.type = "none" =>
           \A t \in PartialChildTransformations :
              LET partial == [FreshSelf EXCEPT !.settings.childBaseTransformation = t]
              IN  getBaseColorForPath(partial, p) = getBaseColor(partial, p)

\* without gradient the modal and the manager give "a/a" the same colour; with the
\* gradient switched on the manager interpolates towards "B" and the modal does not
C29_Witness ==
    /\ ~rootFoldersCache.isNull
    /\ ~GradientOn(Self)
    /\ settings.childBaseTransformation.type = "lightness"
    /\ ~HasBaseColorOverride(<<"a", "a">>)
    /\ Truthy(getBaseColor(Self, <<"a", "a">>))
    /\ getBaseColorForPath(Self, <<"a", "a">>) = getBaseColor(Self, <<"a", "a">>)
    /\ LET gradient == [Self EXCEPT !.settings.childBaseTransformation.useGradient = TRUE]
       IN  /\ getBaseColorForPath(gradient, <<"a", "a">>)
                 = getBaseColorForPath(Self, <<"a", "a">>)
           /\ getBaseColor(gradient, <<"a", "a">>)
                 # getBaseColorForPath(gradient, <<"a", "a">>)

(***************************************************************************)
(* The observer: DOM mutations and the runs that follow them               *)
(***************************************************************************)
ObserverInit ==
    /\ vault = InitVault
    /\ folderConfigs \in PersistedConfigs
    /\ settings \in PersistedSettings
    /\ rootFoldersCache = NullCache
    /\ rootFoldersCacheTimestamp = 0
    /\ now = 0
    /\ ops = 0
    /\ awaiting = <<>>
    /\ observer = ObserverDetached

ObserverNext ==
    \/ StartObserving
    \/ DeliverMutation
    \/ FocusInput
    \/ BlurInput
    \/ DebounceTimerFires
    \/ ResetTimerFires
    \/ BlurTimerFires

ObserverSpec == ObserverInit /\ [][ObserverNext]_vars

\* timers that have been set fire
ObserverFairSpec ==
    /\ ObserverSpec
    /\ WF_vars(DebounceTimerFires)
    /\ WF_vars(ResetTimerFires)
    /\ WF_vars(BlurTimerFires)

\* a mutation for which the callback has set the debounce timer is followed by a run
DebouncedMutationIsFollowedByRun ==
    (observer.timeout /\ observer.mutationSinceRun) ~> ~observer.mutationSinceRun

\* C30 as stated: every mutation of the file explorer delivered to the observer while no
\* input of the explorer is focused is eventually followed by an applyAllStyles run that
\* starts after it, timers firing
C30_MutationIsFollowedByRun ==
    observer.mutationSinceRun ~> ~observer.mutationSinceRun

====
